---- MODULE Spec2Model ----
(***************************************************************************)
(* Parallel Fenwick tree executors (fenwick.h, task_scheduler.h, main.cpp) *)
(* as state machines.  Every executor has its own group of variables and   *)
(* its own specification; the variables of the other executors stay at     *)
(* their idle value.                                                       *)
(***************************************************************************)
EXTENDS Integers, Sequences, FiniteSets, TLC

\* ------------------------------------------------------------------ bounds
MaxN == 4          \* largest tree size n of the sequential tree
MaxVal == 2        \* update values are drawn from 1..MaxVal (and -1)
MaxAdds == 3       \* number of add calls made on the sequential tree
MaxRangeN == 12    \* largest n the range partitioner is run on
MaxRangeThreads == 4   \* largest num_threads the range partitioner is run on
MaxPipeN == 5      \* largest n of a pipeline tree that executes batches
MaxThreads == 3    \* largest num_threads of a pipeline tree that executes batches
MaxOps == 2        \* operations given to one pipeline tree, over all its batches
MaxBatches == 3    \* number of batchAdd calls made on one pipeline tree
MaxShiftN == 11    \* largest n of a semi-static tree that is given empty batches
MaxStepArg == 2    \* the SemiStatic constructor's step argument is in 0..MaxStepArg
MaxWorkers == 2    \* largest num_workers of a scheduler
MaxSchedN == 2     \* largest tree_size of a scheduler
MaxBatchSize == 2  \* largest batch_size of a scheduler
MaxSchedBatches == 2   \* number of batches the driver gives to a scheduler
MaxLazyN == 2      \* largest size of the tree of the lazy driver
MaxLazyThreads == 2    \* largest num_threads of the lazy driver
MaxLazyBatch == 3  \* largest batch_size of the lazy driver
MaxLazyBatches == 2    \* number of batches the lazy driver runs
MaxLockSmallN == 3     \* size of the FenwickTreeLocked that has one block of cells
MaxLockThreads == 2    \* largest team of the parallel for over a FenwickTreeLocked
MaxLockBatch == 3  \* largest batch_size of the lock driver
MaxLockBatches == 1    \* number of batches the lock driver runs
MaxQueued == 2     \* the capacity a bounded queue of a worker is given
MaxQueueThreads == 3   \* threads that call push, pop and close on a LockingQueue
MaxQueueCalls == 2     \* calls one thread makes on the LockingQueue
MaxQueueLength == 2    \* largest max_length_ of a LockingQueue

VARIABLES
    \* FenwickTreeSequential (fenwick.h)
    seq_n,         \* constructor argument n
    seq_bits,      \* std::vector<int> bits, indices 0..n
    seq_array,     \* ghost: the logical array A[0..n-1] the updates define
    seq_calls,     \* ghost: number of add calls made so far
    seq_ret,       \* <<x, total>> when the last call was sum(x) returning total
    \* FenwickTreePipeline / FenwickTreePipelineSemiStatic / FenwickTreePipelineAggregate
    p_class,       \* which of the three classes the object is
    p_n,           \* constructor argument n (bits.size() = n + 1)
    num_threads,   \* constructor argument num_threads
    step,          \* SemiStatic: const int step
    bits,          \* std::vector<int> bits, indices 0..n
    local_bits,    \* Aggregate: std::vector<int> local_bits, indices 0..n
    ranges,        \* std::vector<std::pair<int,int>> ranges: [0..num_threads-1 -> <<first, second>>]
    p_pc,          \* "ctor" | "back" | "idle" | "parallel" | "off"
    ctor_i,        \* initialize_ranges: loop variable i
    ctor_cur,      \* initialize_ranges: local cur
    \* batchAdd of the three pipeline classes
    operations,    \* the batch: sequence of [index, value]
    batches,       \* number of batchAdd calls that have returned
    t_pc,          \* per thread: position in the parallel region
    t_lower,       \* per thread: const lower of "const auto [lower, upper] = ranges[t]"
    t_upper,       \* per thread: const upper
    t_op,          \* per thread: position in operations (1-based)
    t_x,           \* per thread: local x
    t_acc,         \* per thread: the value of bits[x] loaded by bits[x] += val
    single_done,   \* the omp single of this region has been taken
    p_log,         \* ghost: writes of this batch, <<thread, op (0: none), index>>
    p_before,      \* ghost: bits when the batchAdd call started
    p_given,       \* ghost: operations given to batchAdd so far, over all calls
    \* Scheduler / LockFreeScheduler / DecentralizedScheduler (task_scheduler.h)
    s_class,       \* which of the three classes the object is
    num_workers_,  \* int num_workers_
    tree_size_,    \* int tree_size_
    batch_size_,   \* int batch_size_
    task_queues_,  \* per worker: the tasks waiting in its queue, oldest first
    queues_made,   \* task_queues_.size(): queues the constructor has emplaced
    local_trees_,  \* per worker: bits of its FenwickTreeSequential
    results_,      \* std::vector<std::atomic<int>> results_, indices 0..batch_size-1
    sync_,         \* std::atomic<int> sync_
    counter_,      \* int counter_
    w_pc,          \* per worker: "unstarted" | "bind" | "wait" | "task" | "fault" | "done"
    w_task,        \* per worker: local Task task
    w_i,           \* DecentralizedScheduler worker: loop variable i
    w_counter,     \* DecentralizedScheduler worker: local counter
    \* the driver of a scheduler (main.cpp)
    d_pc,          \* position of the driver thread
    d_i,           \* loop variable i of the constructor / of the submit loop
    d_j,           \* loop variable i of broadcast_task
    s_operations,  \* std::vector<Operation> operations: the current batch
    base_bits,     \* bits of base_tree, the sequential tree run on every batch
    seq_res,       \* per position of the batch: what base_tree->sum returned (0: no query)
    s_batches,     \* number of batches validated
    \* the lazy strategy of main (main.cpp) and its FenwickTreeLSync
    lazy_pc,       \* position of the driver thread
    lazy_n,        \* size
    lazy_threads,  \* num_threads
    lazy_batch,    \* batch_size
    lazy_ops,      \* std::vector<Operation> operations: the current batch
    lazy_base,     \* bits of base_tree
    lazy_seq,      \* per position: what base_tree->sum returned (0: no query)
    test_tree,     \* the cells of test_tree
    test_res,      \* per position: what test_tree->sum returned (0: no query)
    left,          \* size_t left
    right,         \* size_t right
    flush_todo,    \* iterations of the running omp parallel for no thread has started
    flush_iter,    \* per thread: the iteration i it runs, -1 when it runs none
    flush_x,       \* per thread: x of the add it is in
    lazy_batches,  \* number of batches compared
    \* FenwickTreeLocked and its driver (fenwick.h, main.cpp)
    lk_pc,         \* "off", "batch" (between batches), "parallel" (in the parallel for)
    lk_n,          \* constructor argument n
    lk_threads,    \* threads of the team
    lk_bits,       \* the cells of bits that some call touches
    mutexes,       \* per block: the thread that holds its mutex, -1 when free
    lk_batch,      \* operations of the running batch
    lk_todo,       \* iterations of the parallel for no thread has started
    lk_t,          \* per thread: the call it is in (pc, op, x, prev_x, val, acc, total, seen)
    lk_before,     \* bits when the batch started
    lk_done,       \* iterations whose call has returned
    lk_sums,       \* what the sums of the batch returned
    lk_batches,    \* number of batches started
    \* LockingQueue (locking_queue.h)
    lq_pc,         \* "off", "on" (the queue is constructed)
    max_length_,   \* size_t max_length_
    queue_,        \* the elements of *queue_, front first: <<pushing thread, its n-th push>>
    closed,        \* bool closed
    lq_m,          \* mutex m: the thread that holds it, 0 when free
    lq_t,          \* per thread: where it is in its call (pc), calls returned, pushes made
    lq_popped      \* the elements pop has taken, in the order they were taken

seqVars == <<seq_n, seq_bits, seq_array, seq_calls, seq_ret>>
ctorVars == <<p_class, p_n, num_threads, step, bits, local_bits, ranges, p_pc,
              ctor_i, ctor_cur>>
batchVars == <<operations, batches, t_pc, t_lower, t_upper, t_op, t_x, t_acc,
               single_done, p_log, p_before, p_given>>
pipeVars == <<ctorVars, batchVars>>
workerVars == <<w_pc, w_task, w_i, w_counter>>
driverVars == <<d_pc, d_i, d_j, s_operations, base_bits, seq_res, s_batches>>
schedVars == <<s_class, num_workers_, tree_size_, batch_size_, task_queues_,
               queues_made, local_trees_, results_, sync_, counter_,
               workerVars, driverVars>>
lazyVars == <<lazy_pc, lazy_n, lazy_threads, lazy_batch, lazy_ops, lazy_base,
              lazy_seq, test_tree, test_res, left, right, flush_todo,
              flush_iter, flush_x, lazy_batches>>
lockVars == <<lk_pc, lk_n, lk_threads, lk_bits, mutexes, lk_batch, lk_todo,
              lk_t, lk_before, lk_done, lk_sums, lk_batches>>
queueVars == <<lq_pc, max_length_, queue_, closed, lq_m, lq_t, lq_popped>>
vars == <<seqVars, pipeVars, schedVars, lazyVars, lockVars, queueVars>>
\* what the actions of one executor leave alone
seqOthers == <<pipeVars, schedVars, lazyVars, lockVars, queueVars>>
pipeOthers == <<seqVars, schedVars, lazyVars, lockVars, queueVars>>
schedOthers == <<seqVars, pipeVars, lazyVars, lockVars, queueVars>>
lazyOthers == <<seqVars, pipeVars, schedVars, lockVars, queueVars>>
lockOthers == <<seqVars, pipeVars, schedVars, lazyVars, queueVars>>
queueOthers == <<seqVars, pipeVars, schedVars, lazyVars, lockVars>>

\* ------------------------------------------------------- integer helpers
RECURSIVE BitAnd(_, _)
BitAnd(a, b) ==
    IF a = 0 \/ b = 0 THEN 0
    ELSE (IF a % 2 = 1 /\ b % 2 = 1 THEN 1 ELSE 0) + 2 * BitAnd(a \div 2, b \div 2)

RECURSIVE BitOr(_, _)
BitOr(a, b) ==
    IF a = 0 THEN b
    ELSE IF b = 0 THEN a
    ELSE (IF a % 2 = 1 \/ b % 2 = 1 THEN 1 ELSE 0) + 2 * BitOr(a \div 2, b \div 2)

RECURSIVE BitXor(_, _)
BitXor(a, b) ==
    IF a = 0 THEN b
    ELSE IF b = 0 THEN a
    ELSE (IF a % 2 # b % 2 THEN 1 ELSE 0) + 2 * BitXor(a \div 2, b \div 2)

\* a & ~m
RECURSIVE BitAndNot(_, _)
BitAndNot(a, m) ==
    IF a = 0 THEN 0
    ELSE (IF a % 2 = 1 /\ m % 2 = 0 THEN 1 ELSE 0) + 2 * BitAndNot(a \div 2, m \div 2)

\* x & -x for x > 0 (two's complement): the lowest set bit of x
lowbit(x) == BitAnd(x, BitAndNot(x, x - 1))

\* 0x8000000000000000ULL >> __builtin_clzll(v) for v > 0: the highest set bit
RECURSIVE HighestBit(_)
HighestBit(v) == IF v <= 1 THEN v ELSE 2 * HighestBit(v \div 2)

RECURSIVE SumTo(_, _)
\* f[0] + ... + f[i]
SumTo(f, i) == IF i < 0 THEN 0 ELSE f[i] + SumTo(f, i - 1)

RECURSIVE SeqSum(_)
SeqSum(s) == IF s = <<>> THEN 0 ELSE Head(s) + SeqSum(Tail(s))

Values == {-1} \cup (1..MaxVal)

\* --------------------------------------------------- FenwickTreeSequential
\* for (++x; x < bits.size(); x += x & -x) bits[x] += val;  (x already ++x'ed)
RECURSIVE AddWalk(_, _, _, _)
AddWalk(b, x, val, size) ==
    IF x < size THEN AddWalk([b EXCEPT ![x] = @ + val], x + lowbit(x), val, size)
    ELSE b

\* for (++x; x > 0; x -= x & -x) total += bits[x];  (x already ++x'ed)
RECURSIVE SumWalk(_, _)
SumWalk(b, x) ==
    IF x > 0 THEN b[x] + SumWalk(b, x - lowbit(x)) ELSE 0

\* add that writes bits[x + 1] and does not walk on
TreeAddOneCell(b, x, val, size) == [b EXCEPT ![x + 1] = @ + val]

\* add(x, val) and sum(x) of every tree class: ++x, then the walk
TreeAdd(b, x, val, size) == AddWalk(b, x + 1, val, size)
TreeSum(b, x) == SumWalk(b, x + 1)

\* a batchAdd that applies the first operation only
SeqBatchAddFirst(b, ops, size) ==
    IF ops = <<>> THEN b
    ELSE AddWalk(b, Head(ops).index + 1, Head(ops).value, size)

\* FenwickTreeSequential::batchAdd: the add walk of every operation in turn
RECURSIVE SeqBatchAdd(_, _, _)
SeqBatchAdd(b, ops, size) ==
    IF ops = <<>> THEN b
    ELSE SeqBatchAdd(AddWalk(b, Head(ops).index + 1, Head(ops).value, size),
                     Tail(ops), size)

SeqStart ==
    /\ seq_n \in 1..MaxN
    /\ seq_bits = [k \in 0..seq_n |-> 0]
    /\ seq_array = [i \in 0..(seq_n - 1) |-> 0]
    /\ seq_calls = 0
    /\ seq_ret = <<>>

SeqTreeAdd(x, val) ==
    /\ seq_calls < MaxAdds
    /\ seq_bits' = TreeAdd(seq_bits, x, val, seq_n + 1)
    /\ seq_array' = [seq_array EXCEPT ![x] = @ + val]
    /\ seq_calls' = seq_calls + 1
    /\ seq_ret' = <<>>
    /\ UNCHANGED <<seq_n, seqOthers>>

SeqTreeSum(x) ==
    /\ seq_ret' = <<x, TreeSum(seq_bits, x)>>
    /\ UNCHANGED <<seq_n, seq_bits, seq_array, seq_calls, seqOthers>>

SeqAddStep == \E x \in 0..(seq_n - 1), val \in Values : SeqTreeAdd(x, val)
SeqSumStep == \E x \in 0..(seq_n - 1) : SeqTreeSum(x)

\* ------------------------------------------------------ initialize_ranges
Classes == {"Pipeline", "SemiStatic", "Aggregate"}

\* the dp pass: for (x = 1; x <= n; ++x) { ++dp[x]; total += dp[x]; ... }.
\* Pipeline and SemiStatic add dp[x] to dp[x + (x & -x)]; Aggregate computes
\* next_x and drops it.
RECURSIVE DpPass(_, _, _, _, _)
DpPass(dp, total, x, n, class) ==
    IF x > n THEN [dp |-> dp, total |-> total]
    ELSE LET d1 == [dp EXCEPT ![x] = @ + 1]
             next_x == x + lowbit(x)
             d2 == IF class # "Aggregate" /\ next_x <= n
                   THEN [d1 EXCEPT ![next_x] = @ + d1[x]]
                   ELSE d1
         IN DpPass(d2, total + d1[x], x + 1, n, class)

Traffic(n, class) == DpPass([k \in 0..n |-> 0], 0, 1, n, class)

\* (long) of a double d = num / den, den > 0: truncation toward zero
TruncToLong(num, den) == IF num >= 0 THEN num \div den ELSE -((-num) \div den)
\* labs(long)
labs(v) == IF v < 0 THEN -v ELSE v

\* while (cur < bits.size() && thread_total < average) { thread_total += dp[cur]; ++cur; }
\* with average = total / num_threads (a double): thread_total < average iff
\* thread_total * num_threads < total.
RECURSIVE RangeAdvance(_, _, _, _, _, _)
RangeAdvance(dp, total, threads, cur, thread_total, size) ==
    IF cur < size /\ thread_total * threads < total
    THEN RangeAdvance(dp, total, threads, cur + 1, thread_total + dp[cur], size)
    ELSE <<cur, thread_total>>

\* one iteration of the for loop over the threads: the value of cur after it
RangeIteration(dp, total, threads, first, size) ==
    LET adv == RangeAdvance(dp, total, threads, first, 0, size)
        cur == adv[1]
        thread_total == adv[2]
        \* labs(thread_total - average) > labs(thread_total - dp[cur - 1] - average)
        over == labs(TruncToLong(thread_total * threads - total, threads))
        under == labs(TruncToLong((thread_total - dp[cur - 1]) * threads - total, threads))
    IN IF cur > first /\ over > under THEN cur - 1 ELSE cur

\* initialize_ranges without its last statement
RangesBackSkipped(rs, threads, size) == rs

\* ranges.back().second = bits.size()
RangesBack(rs, threads, size) ==
    [rs EXCEPT ![threads - 1] = <<rs[threads - 1][1], size>>]

RECURSIVE RangeLoop(_, _, _, _, _, _, _)
RangeLoop(rs, dp, total, threads, i, cur, size) ==
    IF i = threads THEN rs
    ELSE LET c == RangeIteration(dp, total, threads, cur, size)
         IN RangeLoop([rs EXCEPT ![i] = <<cur, c>>], dp, total, threads, i + 1, c, size)

\* initialize_ranges(n, num_threads) as a whole
InitializeRanges(n, threads, class) ==
    LET t == Traffic(n, class)
    IN RangesBack(RangeLoop([i \in 0..(threads - 1) |-> <<0, 0>>], t.dp, t.total,
                            threads, 0, 1, n + 1),
                  threads, n + 1)

\* step((step & ~1) + 1) of the SemiStatic constructor
StepInit(arg) == BitAndNot(arg, 1) + 1

Threads == 0..(num_threads - 1)

\* no batchAdd call has been made
BatchStart ==
    /\ operations = <<>>
    /\ batches = 0
    /\ t_pc = [t \in Threads |-> "none"]
    /\ t_lower = [t \in Threads |-> 0]
    /\ t_upper = [t \in Threads |-> 0]
    /\ t_op = [t \in Threads |-> 0]
    /\ t_x = [t \in Threads |-> 0]
    /\ t_acc = [t \in Threads |-> 0]
    /\ single_done = FALSE
    /\ p_log = {}
    /\ p_before = bits
    /\ p_given = 0

\* the constructor up to the call of initialize_ranges
CtorStart ==
    /\ p_class \in Classes
    /\ p_n \in 1..MaxRangeN
    /\ num_threads \in 1..MaxRangeThreads
    /\ step = IF p_class = "SemiStatic" THEN StepInit(127) ELSE 0
    /\ bits = [k \in 0..p_n |-> 0]
    /\ local_bits = IF p_class = "Aggregate" THEN [k \in 0..p_n |-> 0] ELSE <<>>
    /\ ranges = [i \in 0..(num_threads - 1) |-> <<0, 0>>]
    /\ p_pc = "ctor"
    /\ ctor_i = 0
    /\ ctor_cur = 1
    /\ BatchStart

PipeOff ==
    /\ p_class = "none" /\ p_n = 0 /\ num_threads = 0 /\ step = 0
    /\ bits = <<>> /\ local_bits = <<>> /\ ranges = <<>>
    /\ p_pc = "off" /\ ctor_i = 0 /\ ctor_cur = 0
    /\ BatchStart

SeqOff ==
    /\ seq_n = 0 /\ seq_bits = <<>> /\ seq_array = <<>> /\ seq_calls = 0
    /\ seq_ret = <<>>

\* for (int i = 0; i != num_threads; ++i) { ... }: one iteration
CtorRangeStep ==
    /\ p_pc = "ctor"
    /\ ctor_i # num_threads
    /\ LET t == Traffic(p_n, p_class)
           c == RangeIteration(t.dp, t.total, num_threads, ctor_cur, p_n + 1)
       IN /\ ranges' = [ranges EXCEPT ![ctor_i] = <<ctor_cur, c>>]
          /\ ctor_cur' = c
    /\ ctor_i' = ctor_i + 1
    /\ UNCHANGED <<p_class, p_n, num_threads, step, bits, local_bits, p_pc, batchVars,
                   pipeOthers>>

CtorLoopExit ==
    /\ p_pc = "ctor"
    /\ ctor_i = num_threads
    /\ p_pc' = "back"
    /\ UNCHANGED <<p_class, p_n, num_threads, step, bits, local_bits, ranges,
                   ctor_i, ctor_cur, batchVars, pipeOthers>>

CtorRangesBack ==
    /\ p_pc = "back"
    /\ ranges' = RangesBack(ranges, num_threads, p_n + 1)
    /\ p_pc' = "idle"
    /\ UNCHANGED <<p_class, p_n, num_threads, step, bits, local_bits,
                   ctor_i, ctor_cur, batchVars, pipeOthers>>

\* ---------------------------------------------------------------- batchAdd
\* the jump without its closing "if (x < lower) x += x & -x"
JumpNoAdvance(x, lower) ==
    IF x < lower
    THEN LET highest_diff_bit == HighestBit(BitXor(x, lower))
         IN BitAndNot(BitOr(x, highest_diff_bit), highest_diff_bit - 1)
    ELSE x

\* if (x < lower) { highest_diff_bit = 0x8000000000000000ULL >> clzll(x ^ lower);
\*                  x |= highest_diff_bit; x &= ~(highest_diff_bit - 1);
\*                  if (x < lower) x += x & -x; }
Jump(x, lower) ==
    IF x < lower
    THEN LET highest_diff_bit == HighestBit(BitXor(x, lower))
             x1 == BitOr(x, highest_diff_bit)
             x2 == BitAndNot(x1, highest_diff_bit - 1)
         IN IF x2 < lower THEN x2 + lowbit(x2) ELSE x2
    ELSE x

\* the first operation at or after position op whose x, after the jump, is
\* below upper, with that x; <<Len(ops) + 1, 0>> when there is none.  The
\* operations skipped touch no shared cell.
RECURSIVE FirstCell(_, _, _, _)
FirstCell(ops, op, lower, upper) ==
    IF op > Len(ops) THEN <<op, 0>>
    ELSE LET x == Jump(ops[op].index + 1, lower)
         IN IF x < upper THEN <<op, x>> ELSE FirstCell(ops, op + 1, lower, upper)

\* where a thread stands once the loop over the operations is over
AfterOps(lower, upper) ==
    IF p_class = "SemiStatic" THEN [pc |-> "single", op |-> Len(operations) + 1, x |-> 0]
    ELSE IF p_class = "Aggregate" /\ lower < upper
         THEN [pc |-> "propagate", op |-> Len(operations) + 1, x |-> lower]
         ELSE [pc |-> "join", op |-> Len(operations) + 1, x |-> 0]

\* where a thread stands when it looks for the next cell from operation op on
OpsFrom(op, lower, upper) ==
    LET c == FirstCell(operations, op, lower, upper)
    IN IF c[1] <= Len(operations)
       THEN [pc |-> IF p_class = "Aggregate" THEN "deposit" ELSE "load",
             op |-> c[1], x |-> c[2]]
       ELSE AfterOps(lower, upper)

\* a shift that moves ranges[t].second and forgets ranges[t+1].first
ShiftRightOwnOnly(rs, t, st) == [rs EXCEPT ![t] = <<@[1], @[2] + st>>]

\* the semi-static scheduling block executed by thread t
ShiftRight(rs, t, st) ==
    [rs EXCEPT ![t] = <<@[1], @[2] + st>>, ![t + 1] = <<@[1] + st, @[2]>>]
\* a shift that moves ranges[t].first and forgets ranges[t-1].second
ShiftLeftOwnOnly(rs, t, st) == [rs EXCEPT ![t] = <<@[1] - st, @[2]>>]

ShiftLeft(rs, t, st) ==
    [rs EXCEPT ![t] = <<@[1] - st, @[2]>>, ![t - 1] = <<@[1], @[2] - st>>]

\* a rebalance whose interior thread tries the left first whatever the parity
RebalanceLeftFirst(rs, t, st, size) ==
    IF rs[t][1] = 1
    THEN IF rs[t][2] + st < size THEN ShiftRight(rs, t, st) ELSE rs
    ELSE IF rs[t][1] - st >= 1 THEN ShiftLeft(rs, t, st)
    ELSE IF rs[t][2] + st < size /\ rs[t][2] # size THEN ShiftRight(rs, t, st)
    ELSE rs

Rebalance(rs, t, st, size) ==
    IF rs[t][1] = 1
    THEN IF rs[t][2] + st < size THEN ShiftRight(rs, t, st) ELSE rs
    ELSE IF rs[t][2] = size
    THEN IF rs[t][1] - st >= 1 THEN ShiftLeft(rs, t, st) ELSE rs
    ELSE LET b == (rs[t][1] + rs[t][2]) % 2
         IN IF b = 0 /\ rs[t][1] - st >= 1 THEN ShiftLeft(rs, t, st)
            ELSE IF rs[t][2] + st < size THEN ShiftRight(rs, t, st)
            ELSE rs

Operations(n) == [index : 0..(n - 1), value : 1..MaxVal]
Batches(n) == UNION {[1..l -> Operations(n)] : l \in 0..MaxOps}

\* the state after construction
PipeStart ==
    /\ p_class \in Classes
    /\ p_n \in 1..MaxPipeN
    /\ num_threads \in 1..MaxThreads
    /\ step \in IF p_class = "SemiStatic" THEN {StepInit(a) : a \in 0..MaxStepArg} ELSE {0}
    /\ bits = [k \in 0..p_n |-> 0]
    /\ local_bits = IF p_class = "Aggregate" THEN [k \in 0..p_n |-> 0] ELSE <<>>
    /\ ranges = InitializeRanges(p_n, num_threads, p_class)
    /\ p_pc = "idle"
    /\ ctor_i = num_threads
    /\ ctor_cur = ranges[num_threads - 1][1]
    /\ BatchStart

\* batchAdd(operations) is called: #pragma omp parallel starts the threads
BatchAdd(ops) ==
    /\ p_pc = "idle"
    /\ batches < MaxBatches
    /\ p_given + Len(ops) <= MaxOps
    /\ p_given' = p_given + Len(ops)
    /\ operations' = ops
    /\ p_pc' = "parallel"
    /\ t_pc' = [t \in Threads |-> "fork"]
    /\ t_op' = [t \in Threads |-> 0]
    /\ t_x' = [t \in Threads |-> 0]
    /\ t_acc' = [t \in Threads |-> 0]
    /\ single_done' = FALSE
    /\ p_log' = {}
    /\ p_before' = bits
    /\ UNCHANGED <<p_class, p_n, num_threads, step, bits, local_bits, ranges,
                   ctor_i, ctor_cur, batches, t_lower, t_upper, pipeOthers>>

\* a batchAdd without the omp barrier
WaitsAtBarrierNever(class) == FALSE

\* #pragma omp barrier after the bounds are read: FenwickTreePipelineSemiStatic only
WaitsAtBarrier(class) == class = "SemiStatic"

\* const auto [lower, upper] = ranges[t]; SemiStatic then waits at the barrier
ReadRange(t) ==
    /\ p_pc = "parallel"
    /\ t_pc[t] = "fork"
    /\ t_lower' = [t_lower EXCEPT ![t] = ranges[t][1]]
    /\ t_upper' = [t_upper EXCEPT ![t] = ranges[t][2]]
    /\ LET nxt == IF WaitsAtBarrier(p_class)
                  THEN [pc |-> "barrier", op |-> 0, x |-> 0]
                  ELSE OpsFrom(1, ranges[t][1], ranges[t][2])
       IN /\ t_pc' = [t_pc EXCEPT ![t] = nxt.pc]
          /\ t_op' = [t_op EXCEPT ![t] = nxt.op]
          /\ t_x' = [t_x EXCEPT ![t] = nxt.x]
    /\ UNCHANGED <<ctorVars, operations, batches, t_acc, single_done, p_log,
                   p_before, p_given, pipeOthers>>

\* #pragma omp barrier: every thread has arrived, all go on
Barrier ==
    /\ p_pc = "parallel"
    /\ \A t \in Threads : t_pc[t] = "barrier"
    /\ LET nxt == [t \in Threads |-> OpsFrom(1, t_lower[t], t_upper[t])]
       IN /\ t_pc' = [t \in Threads |-> nxt[t].pc]
          /\ t_op' = [t \in Threads |-> nxt[t].op]
          /\ t_x' = [t \in Threads |-> nxt[t].x]
    /\ UNCHANGED <<ctorVars, operations, batches, t_lower, t_upper, t_acc,
                   single_done, p_log, p_before, p_given, pipeOthers>>

\* bits[x] += val, first half: the plain int bits[x] is read
LoadCell(t) ==
    /\ p_pc = "parallel"
    /\ t_pc[t] = "load"
    /\ t_acc' = [t_acc EXCEPT ![t] = bits[t_x[t]]]
    /\ t_pc' = [t_pc EXCEPT ![t] = "store"]
    /\ UNCHANGED <<ctorVars, operations, batches, t_lower, t_upper, t_op, t_x,
                   single_done, p_log, p_before, p_given, pipeOthers>>

\* bits[x] += val, second half: the sum is written; then x += x & -x and the
\* loops go on to the next cell
StoreCell(t) ==
    /\ p_pc = "parallel"
    /\ t_pc[t] = "store"
    /\ bits' = [bits EXCEPT ![t_x[t]] = t_acc[t] + operations[t_op[t]].value]
    /\ p_log' = p_log \cup {<<t, t_op[t], t_x[t]>>}
    /\ LET x == t_x[t] + lowbit(t_x[t])
           nxt == IF x < t_upper[t]
                  THEN [pc |-> "load", op |-> t_op[t], x |-> x]
                  ELSE OpsFrom(t_op[t] + 1, t_lower[t], t_upper[t])
       IN /\ t_pc' = [t_pc EXCEPT ![t] = nxt.pc]
          /\ t_op' = [t_op EXCEPT ![t] = nxt.op]
          /\ t_x' = [t_x EXCEPT ![t] = nxt.x]
    /\ UNCHANGED <<p_class, p_n, num_threads, step, local_bits, ranges, p_pc,
                   ctor_i, ctor_cur, operations, batches, t_lower, t_upper, t_acc,
                   single_done, p_before, p_given, pipeOthers>>

\* a deposit that overwrites the cell
DepositedOver(l, x, val) == [l EXCEPT ![x] = val]

\* local_bits[x] += val
Deposited(l, x, val) == [l EXCEPT ![x] = @ + val]

\* Aggregate: if (x < upper) local_bits[x] += val
Deposit(t) ==
    /\ p_pc = "parallel"
    /\ t_pc[t] = "deposit"
    /\ local_bits' = Deposited(local_bits, t_x[t], operations[t_op[t]].value)
    /\ p_log' = p_log \cup {<<t, t_op[t], t_x[t]>>}
    /\ LET nxt == OpsFrom(t_op[t] + 1, t_lower[t], t_upper[t])
       IN /\ t_pc' = [t_pc EXCEPT ![t] = nxt.pc]
          /\ t_op' = [t_op EXCEPT ![t] = nxt.op]
          /\ t_x' = [t_x EXCEPT ![t] = nxt.x]
    /\ UNCHANGED <<p_class, p_n, num_threads, step, bits, ranges, p_pc,
                   ctor_i, ctor_cur, operations, batches, t_lower, t_upper, t_acc,
                   single_done, p_before, p_given, pipeOthers>>

\* a propagation step that leaves local_bits[x] as it is
PropagateLocalKept(l, x, upper) ==
    IF x + lowbit(x) < upper THEN [l EXCEPT ![x + lowbit(x)] = @ + l[x]] ELSE l

\* local_bits after one iteration of the propagation loop:
\* if (next_x < upper) local_bits[next_x] += val_agg; local_bits[x] = 0;
PropagateLocal(l, x, upper) ==
    LET next_x == x + lowbit(x)
        val_agg == l[x]
        l1 == IF next_x < upper THEN [l EXCEPT ![next_x] = @ + val_agg] ELSE l
    IN [l1 EXCEPT ![x] = 0]

\* Aggregate: one iteration of for (int x = lower; x < upper; ++x) { ... }
Propagate(t) ==
    /\ p_pc = "parallel"
    /\ t_pc[t] = "propagate"
    /\ LET x == t_x[t]
           next_x == x + lowbit(x)
           val_agg == local_bits[x]
       IN /\ bits' = [bits EXCEPT ![x] = @ + val_agg]
          /\ local_bits' = PropagateLocal(local_bits, x, t_upper[t])
          /\ p_log' = p_log \cup {<<t, 0, x>>}
                        \cup (IF next_x < t_upper[t] THEN {<<t, 0, next_x>>} ELSE {})
          /\ IF x + 1 < t_upper[t]
             THEN /\ t_x' = [t_x EXCEPT ![t] = x + 1]
                  /\ t_pc' = t_pc
             ELSE /\ t_x' = [t_x EXCEPT ![t] = 0]
                  /\ t_pc' = [t_pc EXCEPT ![t] = "join"]
    /\ UNCHANGED <<p_class, p_n, num_threads, step, ranges, p_pc, ctor_i, ctor_cur,
                   operations, batches, t_lower, t_upper, t_op, t_acc,
                   single_done, p_before, p_given, pipeOthers>>

\* SemiStatic: #pragma omp single nowait. The first thread to get here runs
\* the block, the others pass by.
Single(t) ==
    /\ p_pc = "parallel"
    /\ t_pc[t] = "single"
    /\ ranges' = IF single_done THEN ranges
                 ELSE Rebalance(ranges, t, step, p_n + 1)
    /\ single_done' = TRUE
    /\ t_pc' = [t_pc EXCEPT ![t] = "join"]
    /\ UNCHANGED <<p_class, p_n, num_threads, step, bits, local_bits, p_pc,
                   ctor_i, ctor_cur, operations, batches, t_lower, t_upper, t_op,
                   t_x, t_acc, p_log, p_before, p_given, pipeOthers>>

\* the end of the parallel region: every thread is done, batchAdd returns
Join ==
    /\ p_pc = "parallel"
    /\ \A t \in Threads : t_pc[t] = "join"
    /\ p_pc' = "idle"
    /\ batches' = batches + 1
    /\ t_pc' = [t \in Threads |-> "none"]
    /\ UNCHANGED <<p_class, p_n, num_threads, step, bits, local_bits, ranges,
                   ctor_i, ctor_cur, operations, t_lower, t_upper, t_op, t_x,
                   t_acc, single_done, p_log, p_before, p_given, pipeOthers>>

BatchAddStep == \E ops \in Batches(p_n) : BatchAdd(ops)
ReadRangeStep == \E t \in Threads : ReadRange(t)
LoadCellStep == \E t \in Threads : LoadCell(t)
StoreCellStep == \E t \in Threads : StoreCell(t)
DepositStep == \E t \in Threads : Deposit(t)
PropagateStep == \E t \in Threads : Propagate(t)
SingleStep == \E t \in Threads : Single(t)

\* ---------------------------------------- Scheduler and LockFreeScheduler
Workers == 0..(num_workers_ - 1)
Positions == 0..(batch_size_ - 1)
NoTask == [type |-> "None", index |-> 0, value |-> 0]

\* Generator::next: 'a' with a value, or 'q' (whose value is not used)
SchedOperations(n) ==
    [command : {"a"}, index : 0..(n - 1), value : 1..MaxVal]
        \cup [command : {"q"}, index : 0..(n - 1), value : {0}]

RECURSIVE BasePass(_, _, _, _, _, _)
\* the sequential loop of the driver over operations[i..size-1] on base_tree:
\* <<bits of base_tree, what each query position returned>>
BasePass(ops, i, size, n, b, res) ==
    IF i = size THEN <<b, res>>
    ELSE IF ops[i].command = "a"
         THEN BasePass(ops, i + 1, size, n,
                       TreeAdd(b, ops[i].index, ops[i].value, n + 1), res)
         ELSE BasePass(ops, i + 1, size, n, b,
                       [res EXCEPT ![i] = TreeSum(b, ops[i].index)])

\* a worker that takes the youngest task of its queue
DequeuedLast(q) == <<q[Len(q)], SubSeq(q, 1, Len(q) - 1)>>

\* task = q.queue.front(); q.queue.pop();  <<task, rest of the queue>>
Dequeued(q) == <<Head(q), Tail(q)>>

\* every update goes to worker 0
EnqueueTargetFirst(counter, workers) == 0

\* int worker_id = counter_++ % num_workers_
EnqueueTarget(counter, workers) == counter % workers

DriverOff ==
    /\ d_pc = "off" /\ d_i = 0 /\ d_j = 0 /\ s_operations = <<>>
    /\ base_bits = <<>> /\ seq_res = <<>> /\ s_batches = 0

SchedOff ==
    /\ s_class = "none" /\ num_workers_ = 0 /\ tree_size_ = 0 /\ batch_size_ = 0
    /\ task_queues_ = <<>> /\ queues_made = 0 /\ local_trees_ = <<>>
    /\ results_ = <<>> /\ sync_ = 0 /\ counter_ = 0
    /\ w_pc = <<>> /\ w_task = <<>> /\ w_i = <<>> /\ w_counter = <<>>
    /\ DriverOff

\* the lazy strategy is not the one that runs
LazyOff ==
    /\ lazy_pc = "off" /\ lazy_n = 0 /\ lazy_threads = 0 /\ lazy_batch = 0
    /\ lazy_ops = <<>> /\ lazy_base = <<>> /\ lazy_seq = <<>>
    /\ test_tree = <<>> /\ test_res = <<>> /\ left = 0 /\ right = 0
    /\ flush_todo = {} /\ flush_iter = <<>> /\ flush_x = <<>>
    /\ lazy_batches = 0

\* the lock strategy is not the one that runs
LockOff ==
    /\ lk_pc = "off" /\ lk_n = 0 /\ lk_threads = 0 /\ lk_bits = <<>>
    /\ mutexes = <<>> /\ lk_batch = <<>> /\ lk_todo = {} /\ lk_t = <<>>
    /\ lk_before = <<>> /\ lk_done = {} /\ lk_sums = {} /\ lk_batches = 0

QueueOff ==
    /\ lq_pc = "off" /\ max_length_ = 0 /\ queue_ = <<>> /\ closed = FALSE
    /\ lq_m = 0 /\ lq_t = <<>> /\ lq_popped = <<>>

\* the member initialisers of the constructor; the loop that starts the
\* workers has not run yet
SchedStart ==
    /\ s_class \in {"Scheduler", "LockFreeScheduler"}
    /\ num_workers_ \in 1..MaxWorkers
    /\ tree_size_ \in 1..MaxSchedN
    /\ batch_size_ \in 1..MaxBatchSize
    /\ task_queues_ = [w \in Workers |-> <<>>]
    /\ queues_made = 0
    /\ local_trees_ = [w \in Workers |-> [k \in 0..tree_size_ |-> 0]]
    /\ results_ = [i \in Positions |-> 0]
    /\ sync_ = 0
    /\ counter_ = 0
    /\ w_pc = [w \in Workers |-> "unstarted"]
    /\ w_task = [w \in Workers |-> NoTask]
    /\ w_i = [w \in Workers |-> 0]
    /\ w_counter = [w \in Workers |-> 0]
    /\ d_pc = "ctor" /\ d_i = 0 /\ d_j = 0
    /\ s_operations = <<>>
    /\ base_bits = [k \in 0..tree_size_ |-> 0]
    /\ seq_res = [i \in Positions |-> 0]
    /\ s_batches = 0

\* local_trees_.emplace_back(...); workers_.emplace_back(&worker_loop, this, i, i+1)
SchedCtorSpawn ==
    /\ d_pc = "ctor"
    /\ d_i < num_workers_
    /\ w_pc' = [w_pc EXCEPT ![d_i] = "bind"]
    /\ d_pc' = "ctor_queue"
    /\ UNCHANGED <<s_class, num_workers_, tree_size_, batch_size_, task_queues_,
                   queues_made, local_trees_, results_, sync_, counter_,
                   w_task, w_i, w_counter,
                   d_i, d_j, s_operations, base_bits, seq_res, s_batches>>
    /\ UNCHANGED schedOthers

\* task_queues_.emplace_back(...); ++i
SchedCtorQueue ==
    /\ d_pc = "ctor_queue"
    /\ queues_made' = d_i + 1
    /\ d_i' = d_i + 1
    /\ d_pc' = IF d_i + 1 < num_workers_ THEN "ctor" ELSE "batch"
    /\ UNCHANGED <<s_class, num_workers_, tree_size_, batch_size_, task_queues_,
                   local_trees_, results_, sync_, counter_, workerVars,
                   d_j, s_operations, base_bits, seq_res, s_batches>>
    /\ UNCHANGED schedOthers

\* Scheduler: TaskQueue& q = *task_queues_[worker_id] reads the unique_ptr of
\* the slot; a slot the constructor has not emplaced yet holds no pointer and
\* the worker faults.  LockFreeScheduler: auto& q = task_queues_[worker_id]
\* takes the address of the slot only.
WorkerBind(w) ==
    /\ w_pc[w] = "bind"
    /\ w_pc' = [w_pc EXCEPT ![w] =
                  IF s_class = "Scheduler" /\ w >= queues_made THEN "fault"
                  ELSE "wait"]
    /\ UNCHANGED <<s_class, num_workers_, tree_size_, batch_size_, task_queues_,
                   queues_made, local_trees_, results_, sync_, counter_,
                   w_task, w_i, w_counter, driverVars>>
    /\ UNCHANGED schedOthers

\* q.wait_dequeue(task) on a slot that holds no queue yet (LockFreeScheduler)
WorkerFault(w) ==
    /\ w_pc[w] = "wait"
    /\ w >= queues_made
    /\ w_pc' = [w_pc EXCEPT ![w] = "fault"]
    /\ UNCHANGED <<s_class, num_workers_, tree_size_, batch_size_, task_queues_,
                   queues_made, local_trees_, results_, sync_, counter_,
                   w_task, w_i, w_counter, driverVars>>
    /\ UNCHANGED schedOthers

\* q.cv.wait(lock, !q.queue.empty()); task = q.queue.front(); q.queue.pop();
WorkerDequeue(w) ==
    /\ w_pc[w] = "wait"
    /\ w < queues_made
    /\ task_queues_[w] # <<>>
    /\ w_task' = [w_task EXCEPT ![w] = Dequeued(task_queues_[w])[1]]
    /\ task_queues_' = [task_queues_ EXCEPT ![w] = Dequeued(task_queues_[w])[2]]
    /\ w_pc' = [w_pc EXCEPT ![w] = "task"]
    /\ UNCHANGED <<s_class, num_workers_, tree_size_, batch_size_,
                   queues_made, local_trees_, results_, sync_, counter_,
                   w_i, w_counter, driverVars>>
    /\ UNCHANGED schedOthers

\* a worker that applies its updates to the tree of worker 0
HandledTreesShared(trees, w, task, size) ==
    IF task.type = "Update"
    THEN [trees EXCEPT ![0] = TreeAdd(@, task.index, task.value, size)]
    ELSE trees

\* if (task.type == TaskType::Update) local_trees_[worker_id].add(index, value)
HandledTrees(trees, w, task, size) ==
    IF task.type = "Update"
    THEN [trees EXCEPT ![w] = TreeAdd(@, task.index, task.value, size)]
    ELSE trees

\* a worker that goes on waiting after a Finish task
WorkerExitsNever(task) == FALSE

\* else if (task.type == TaskType::Finish) return;
WorkerExits(task) == task.type = "Finish"

\* the if chain of worker_loop on task.type
WorkerHandle(w) ==
    /\ w_pc[w] = "task"
    /\ LET task == w_task[w]
       IN /\ local_trees_' = HandledTrees(local_trees_, w, task, tree_size_ + 1)
          /\ results_' =
                IF task.type = "Query"
                THEN [results_ EXCEPT ![task.value] =
                         @ + TreeSum(local_trees_[w], task.index)]
                ELSE results_
          /\ sync_' = IF task.type = "Sync" THEN sync_ + 1 ELSE sync_
          /\ w_pc' = [w_pc EXCEPT ![w] =
                         IF WorkerExits(task) THEN "done" ELSE "wait"]
    /\ w_task' = [w_task EXCEPT ![w] = NoTask]
    /\ UNCHANGED <<s_class, num_workers_, tree_size_, batch_size_, task_queues_,
                   queues_made, counter_, w_i, w_counter, driverVars>>
    /\ UNCHANGED schedOthers

\* the driver fills operations and runs them on base_tree (main.cpp)
DriverBatch(ops) ==
    /\ d_pc = "batch"
    /\ s_batches < MaxSchedBatches
    /\ s_operations' = ops
    /\ LET pass == BasePass(ops, 0, batch_size_, tree_size_, base_bits,
                            [i \in Positions |-> 0])
       IN base_bits' = pass[1] /\ seq_res' = pass[2]
    /\ d_pc' = "init"
    /\ UNCHANGED <<s_class, num_workers_, tree_size_, batch_size_, task_queues_,
                   queues_made, local_trees_, results_, sync_, counter_,
                   workerVars, d_i, d_j, s_batches>>
    /\ UNCHANGED schedOthers

\* init(): every results_ cell and sync_ are set to 0
SchedInit ==
    /\ d_pc = "init"
    /\ results_' = [i \in Positions |-> 0]
    /\ sync_' = 0
    /\ d_pc' = "submit"
    /\ d_i' = 0
    /\ UNCHANGED <<s_class, num_workers_, tree_size_, batch_size_, task_queues_,
                   queues_made, local_trees_, counter_, workerVars,
                   d_j, s_operations, base_bits, seq_res, s_batches>>
    /\ UNCHANGED schedOthers

\* submit_update(op.index, op.value): enqueue_task
SubmitUpdate ==
    /\ d_pc = "submit"
    /\ d_i < batch_size_
    /\ s_operations[d_i].command = "a"
    /\ LET worker_id == EnqueueTarget(counter_, num_workers_)
           task == [type |-> "Update", index |-> s_operations[d_i].index,
                    value |-> s_operations[d_i].value]
       IN task_queues_' = [task_queues_ EXCEPT ![worker_id] = Append(@, task)]
    /\ counter_' = counter_ + 1
    /\ d_i' = d_i + 1
    /\ UNCHANGED <<s_class, num_workers_, tree_size_, batch_size_,
                   queues_made, local_trees_, results_, sync_, workerVars,
                   d_pc, d_j, s_operations, base_bits, seq_res, s_batches>>
    /\ UNCHANGED schedOthers

\* submit_query(op.index, i): broadcast_task starts
SubmitQuery ==
    /\ d_pc = "submit"
    /\ d_i < batch_size_
    /\ s_operations[d_i].command = "q"
    /\ d_pc' = "bcast_query"
    /\ d_j' = 0
    /\ UNCHANGED <<s_class, num_workers_, tree_size_, batch_size_, task_queues_,
                   queues_made, local_trees_, results_, sync_, counter_,
                   workerVars, d_i, s_operations, base_bits, seq_res, s_batches>>
    /\ UNCHANGED schedOthers

\* sync(): broadcast_task starts
SchedSync ==
    /\ d_pc = "submit"
    /\ d_i = batch_size_
    /\ d_pc' = "bcast_sync"
    /\ d_j' = 0
    /\ UNCHANGED <<s_class, num_workers_, tree_size_, batch_size_, task_queues_,
                   queues_made, local_trees_, results_, sync_, counter_,
                   workerVars, d_i, s_operations, base_bits, seq_res, s_batches>>
    /\ UNCHANGED schedOthers

\* shutdown(): broadcast_task starts
SchedShutdown ==
    /\ d_pc = "batch"
    /\ d_pc' = "bcast_finish"
    /\ d_j' = 0
    /\ UNCHANGED <<s_class, num_workers_, tree_size_, batch_size_, task_queues_,
                   queues_made, local_trees_, results_, sync_, counter_,
                   workerVars, d_i, s_operations, base_bits, seq_res, s_batches>>
    /\ UNCHANGED schedOthers

\* the task broadcast_task was called with
BroadcastTask ==
    IF d_pc = "bcast_query"
    THEN [type |-> "Query", index |-> s_operations[d_i].index, value |-> d_i]
    ELSE IF d_pc = "bcast_sync" THEN [type |-> "Sync", index |-> 0, value |-> 0]
    ELSE [type |-> "Finish", index |-> 0, value |-> 0]

\* one iteration of the loop of broadcast_task: push on queue i, ++i
BroadcastPush ==
    /\ d_pc \in {"bcast_query", "bcast_sync", "bcast_finish"}
    /\ task_queues_' = [task_queues_ EXCEPT ![d_j] = Append(@, BroadcastTask)]
    /\ IF d_j + 1 < num_workers_
       THEN d_j' = d_j + 1 /\ UNCHANGED <<d_pc, d_i>>
       ELSE /\ d_j' = 0
            /\ d_pc' = CASE d_pc = "bcast_query" -> "submit"
                         [] d_pc = "bcast_sync" -> "sync_wait"
                         [] OTHER -> "join"
            /\ d_i' = IF d_pc = "bcast_query" THEN d_i + 1 ELSE d_i
    /\ UNCHANGED <<s_class, num_workers_, tree_size_, batch_size_,
                   queues_made, local_trees_, results_, sync_, counter_,
                   workerVars, s_operations, base_bits, seq_res, s_batches>>
    /\ UNCHANGED schedOthers

\* a sync() that returns as soon as one worker has counted the Sync
SyncDoneFirst(sync, workers) == sync >= 1

\* while (sync_.load() != num_workers_); is left when the load gives num_workers_
SyncDone(sync, workers) == sync = workers

\* while (sync_.load() != num_workers_); return;
SyncReturn ==
    /\ d_pc = "sync_wait"
    /\ SyncDone(sync_, num_workers_)
    /\ d_pc' = "validate"
    /\ UNCHANGED <<s_class, num_workers_, tree_size_, batch_size_, task_queues_,
                   queues_made, local_trees_, results_, sync_, counter_,
                   workerVars, d_i, d_j, s_operations, base_bits, seq_res, s_batches>>
    /\ UNCHANGED schedOthers

\* validate_sum(): res += results_[i].load() over the batch
ValidateSum == SumTo(results_, batch_size_ - 1)

\* test_res = scheduler.validate_sum(); if (seq_res != test_res) return -1;
DriverValidate ==
    /\ d_pc = "validate"
    /\ d_pc' = IF SumTo(seq_res, batch_size_ - 1) # ValidateSum THEN "diff"
               ELSE "batch"
    /\ s_batches' = s_batches + 1
    /\ UNCHANGED <<s_class, num_workers_, tree_size_, batch_size_, task_queues_,
                   queues_made, local_trees_, results_, sync_, counter_,
                   workerVars, d_i, d_j, s_operations, base_bits, seq_res>>
    /\ UNCHANGED schedOthers

\* for (auto& t : workers_) t.join();
SchedJoin ==
    /\ d_pc = "join"
    /\ \A w \in Workers : w_pc[w] = "done"
    /\ d_pc' = "done"
    /\ UNCHANGED <<s_class, num_workers_, tree_size_, batch_size_, task_queues_,
                   queues_made, local_trees_, results_, sync_, counter_,
                   workerVars, d_i, d_j, s_operations, base_bits, seq_res, s_batches>>
    /\ UNCHANGED schedOthers

DriverBatchStep == \E ops \in [Positions -> SchedOperations(tree_size_)] : DriverBatch(ops)
WorkerBindStep == \E w \in Workers : WorkerBind(w)
WorkerFaultStep == \E w \in Workers : WorkerFault(w)
WorkerDequeueStep == \E w \in Workers : WorkerDequeue(w)
WorkerHandleStep == \E w \in Workers : WorkerHandle(w)

InitSched == SchedStart /\ SeqOff /\ PipeOff /\ LazyOff /\ LockOff /\ QueueOff
NextSched ==
    \/ SchedCtorSpawn \/ SchedCtorQueue \/ WorkerBindStep \/ WorkerFaultStep
    \/ WorkerDequeueStep \/ WorkerHandleStep \/ DriverBatchStep \/ SchedInit
    \/ SubmitUpdate \/ SubmitQuery \/ SchedSync \/ SchedShutdown
    \/ BroadcastPush \/ SyncReturn \/ DriverValidate \/ SchedJoin
SpecSched == InitSched /\ [][NextSched]_vars

\* the threads run: a worker that can bind its queue, dequeue or handle a
\* task does so, and so does the driver inside broadcast_task and join
SchedFairness ==
    /\ \A w \in 0..(MaxWorkers - 1) :
         WF_vars(w \in Workers
                 /\ (WorkerBind(w) \/ WorkerDequeue(w) \/ WorkerHandle(w)))
    /\ WF_vars(BroadcastPush)
    /\ WF_vars(SchedJoin)
SpecSchedFair == InitSched /\ [][NextSched]_vars /\ SchedFairness

\* the driver runs too: its spin on sync_ in sync() is left once the load
\* gives num_workers_
SyncFairness == SchedFairness /\ WF_vars(SyncReturn)
SpecSyncFair == InitSched /\ [][NextSched]_vars /\ SyncFairness

\* ------------------------------- a scheduler constructed with no worker
\* Scheduler(num_threads - 1, size, batch_size) with num_threads = 1: the
\* member initialisers with num_workers = 0
NoWorkersStart ==
    /\ s_class \in {"Scheduler", "LockFreeScheduler"}
    /\ num_workers_ = 0
    /\ tree_size_ \in 1..MaxSchedN
    /\ batch_size_ \in 1..MaxBatchSize
    /\ task_queues_ = <<>>
    /\ queues_made = 0
    /\ local_trees_ = <<>>
    /\ results_ = [i \in Positions |-> 0]
    /\ sync_ = 0
    /\ counter_ = 0
    /\ w_pc = <<>> /\ w_task = <<>> /\ w_i = <<>> /\ w_counter = <<>>
    /\ d_pc = "ctor" /\ d_i = 0 /\ d_j = 0
    /\ s_operations = <<>>
    /\ base_bits = [k \in 0..tree_size_ |-> 0]
    /\ seq_res = [i \in Positions |-> 0]
    /\ s_batches = 0

\* for (int i = 0; i < num_workers_; ++i) is not entered and the constructor
\* returns
SchedCtorNone ==
    /\ d_pc = "ctor"
    /\ d_i >= num_workers_
    /\ d_pc' = "batch"
    /\ UNCHANGED <<s_class, num_workers_, tree_size_, batch_size_, task_queues_,
                   queues_made, local_trees_, results_, sync_, counter_,
                   workerVars, d_i, d_j, s_operations, base_bits, seq_res,
                   s_batches>>
    /\ UNCHANGED schedOthers

\* broadcast_task: for (int i = 0; i < num_workers_; ++i) is not entered
BroadcastNone ==
    /\ d_pc \in {"bcast_query", "bcast_sync", "bcast_finish"}
    /\ num_workers_ <= 0
    /\ d_pc' = CASE d_pc = "bcast_query" -> "submit"
                 [] d_pc = "bcast_sync" -> "sync_wait"
                 [] OTHER -> "join"
    /\ d_i' = IF d_pc = "bcast_query" THEN d_i + 1 ELSE d_i
    /\ UNCHANGED <<s_class, num_workers_, tree_size_, batch_size_, task_queues_,
                   queues_made, local_trees_, results_, sync_, counter_,
                   workerVars, d_j, s_operations, base_bits, seq_res, s_batches>>
    /\ UNCHANGED schedOthers

\* enqueue_task: counter_++ % num_workers_ divides by zero; the division
\* traps, or gives an index into the empty task_queues_, and the process dies
SubmitUpdateFault ==
    /\ d_pc = "submit"
    /\ d_i < batch_size_
    /\ s_operations[d_i].command = "a"
    /\ num_workers_ = 0
    /\ d_pc' = "fault"
    /\ UNCHANGED <<s_class, num_workers_, tree_size_, batch_size_, task_queues_,
                   queues_made, local_trees_, results_, sync_, counter_,
                   workerVars, d_i, d_j, s_operations, base_bits, seq_res,
                   s_batches>>
    /\ UNCHANGED schedOthers

InitNoWorkers == NoWorkersStart /\ SeqOff /\ PipeOff /\ LazyOff /\ LockOff /\ QueueOff
NextNoWorkers ==
    \/ SchedCtorNone \/ DriverBatchStep \/ SchedInit \/ SubmitUpdateFault
    \/ SubmitQuery \/ SchedSync \/ SchedShutdown \/ BroadcastNone
    \/ SyncReturn \/ DriverValidate \/ SchedJoin
SpecNoWorkers == InitNoWorkers /\ [][NextNoWorkers]_vars

\* ---------------------------- the schedulers under any routing of updates
\* an update that is pushed on every queue
RoutedAll(queues, worker_id, task) ==
    [w \in DOMAIN queues |-> Append(queues[w], task)]

\* auto& q = *task_queues_[worker_id]; q.queue.push(task);
Routed(queues, worker_id, task) == [queues EXCEPT ![worker_id] = Append(@, task)]

\* submit_update(op.index, op.value) with the worker of enqueue_task given
\* by the caller in place of counter_++ % num_workers_
SubmitUpdateTo(worker_id) ==
    /\ d_pc = "submit"
    /\ d_i < batch_size_
    /\ s_operations[d_i].command = "a"
    /\ LET task == [type |-> "Update", index |-> s_operations[d_i].index,
                    value |-> s_operations[d_i].value]
       IN task_queues_' = Routed(task_queues_, worker_id, task)
    /\ counter_' = counter_ + 1
    /\ d_i' = d_i + 1
    /\ UNCHANGED <<s_class, num_workers_, tree_size_, batch_size_,
                   queues_made, local_trees_, results_, sync_, workerVars,
                   d_pc, d_j, s_operations, base_bits, seq_res, s_batches>>
    /\ UNCHANGED schedOthers

SubmitUpdateToStep == \E w \in Workers : SubmitUpdateTo(w)

NextRoute ==
    \/ SchedCtorSpawn \/ SchedCtorQueue \/ WorkerBindStep \/ WorkerFaultStep
    \/ WorkerDequeueStep \/ WorkerHandleStep \/ DriverBatchStep \/ SchedInit
    \/ SubmitUpdateToStep \/ SubmitQuery \/ SchedSync \/ SchedShutdown
    \/ BroadcastPush \/ SyncReturn \/ DriverValidate \/ SchedJoin
SpecRoute == InitSched /\ [][NextRoute]_vars

\* ------------------------------------------------- DecentralizedScheduler
\* every worker applies every update
DecTakesAll(counter, workers, worker_id) == TRUE

\* counter++ % num_workers_ == worker_id
DecTakes(counter, workers, worker_id) == counter % workers = worker_id

\* main.cpp: local_trees holds num_threads - 1 zero trees; no scheduler yet
DecStart ==
    /\ s_class = "DecentralizedScheduler"
    /\ num_workers_ \in 1..MaxWorkers
    /\ tree_size_ \in 1..MaxSchedN
    /\ batch_size_ \in 1..MaxBatchSize
    /\ task_queues_ = <<>>
    /\ queues_made = 0
    /\ local_trees_ = [w \in Workers |-> [k \in 0..tree_size_ |-> 0]]
    /\ results_ = [i \in Positions |-> 0]
    /\ sync_ = 0
    /\ counter_ = 0
    /\ w_pc = [w \in Workers |-> "unstarted"]
    /\ w_task = [w \in Workers |-> NoTask]
    /\ w_i = [w \in Workers |-> 0]
    /\ w_counter = [w \in Workers |-> 0]
    /\ d_pc = "batch" /\ d_i = 0 /\ d_j = 0
    /\ s_operations = <<>>
    /\ base_bits = [k \in 0..tree_size_ |-> 0]
    /\ seq_res = [i \in Positions |-> 0]
    /\ s_batches = 0

\* the driver fills operations, runs them on base_tree and enters the
\* constructor DecentralizedScheduler(...): results_(batch_size)
DecBatch(ops) ==
    /\ d_pc = "batch"
    /\ s_batches < MaxSchedBatches
    /\ s_operations' = ops
    /\ LET pass == BasePass(ops, 0, batch_size_, tree_size_, base_bits,
                            [i \in Positions |-> 0])
       IN base_bits' = pass[1] /\ seq_res' = pass[2]
    /\ results_' = [i \in Positions |-> 0]
    /\ w_pc' = [w \in Workers |-> "unstarted"]
    /\ d_pc' = "dec_ctor"
    /\ d_i' = 0
    /\ UNCHANGED <<s_class, num_workers_, tree_size_, batch_size_, task_queues_,
                   queues_made, local_trees_, sync_, counter_,
                   w_task, w_i, w_counter, d_j, s_batches>>
    /\ UNCHANGED schedOthers

\* workers_.emplace_back(&worker_loop, this, i, i+1, operations, local_trees[i])
DecCtorSpawn ==
    /\ d_pc = "dec_ctor"
    /\ d_i < num_workers_
    /\ w_pc' = [w_pc EXCEPT ![d_i] = "scan"]
    /\ w_i' = [w_i EXCEPT ![d_i] = 0]
    /\ w_counter' = [w_counter EXCEPT ![d_i] = 0]
    /\ d_i' = d_i + 1
    /\ UNCHANGED <<s_class, num_workers_, tree_size_, batch_size_, task_queues_,
                   queues_made, local_trees_, results_, sync_, counter_,
                   w_task, d_pc, d_j, s_operations, base_bits, seq_res, s_batches>>
    /\ UNCHANGED schedOthers

\* one iteration of the for loop of worker_loop
DecWorkerStep(w) ==
    /\ w_pc[w] = "scan"
    /\ w_i[w] < batch_size_
    /\ LET op == s_operations[w_i[w]]
           mine == DecTakes(w_counter[w], num_workers_, w)
       IN /\ local_trees_' =
                IF op.command = "a" /\ mine
                THEN [local_trees_ EXCEPT ![w] =
                         TreeAdd(@, op.index, op.value, tree_size_ + 1)]
                ELSE local_trees_
          /\ w_counter' = [w_counter EXCEPT ![w] =
                             IF op.command = "a" THEN @ + 1 ELSE @]
          /\ results_' =
                IF op.command = "a" THEN results_
                ELSE [results_ EXCEPT ![w_i[w]] =
                         @ + TreeSum(local_trees_[w], op.index)]
    /\ w_i' = [w_i EXCEPT ![w] = @ + 1]
    /\ UNCHANGED <<s_class, num_workers_, tree_size_, batch_size_, task_queues_,
                   queues_made, sync_, counter_, w_pc, w_task, driverVars>>
    /\ UNCHANGED schedOthers

\* i < batch_size_ fails: worker_loop returns
DecWorkerExit(w) ==
    /\ w_pc[w] = "scan"
    /\ w_i[w] = batch_size_
    /\ w_pc' = [w_pc EXCEPT ![w] = "done"]
    /\ UNCHANGED <<s_class, num_workers_, tree_size_, batch_size_, task_queues_,
                   queues_made, local_trees_, results_, sync_, counter_,
                   w_task, w_i, w_counter, driverVars>>
    /\ UNCHANGED schedOthers

\* sync(): for (auto& t : workers_) t.join();
DecSync ==
    /\ d_pc = "dec_ctor"
    /\ d_i = num_workers_
    /\ \A w \in Workers : w_pc[w] = "done"
    /\ d_pc' = "validate"
    /\ UNCHANGED <<s_class, num_workers_, tree_size_, batch_size_, task_queues_,
                   queues_made, local_trees_, results_, sync_, counter_,
                   workerVars, d_i, d_j, s_operations, base_bits, seq_res, s_batches>>
    /\ UNCHANGED schedOthers

DecBatchStep == \E ops \in [Positions -> SchedOperations(tree_size_)] : DecBatch(ops)
DecWorkerStepStep == \E w \in Workers : DecWorkerStep(w)
DecWorkerExitStep == \E w \in Workers : DecWorkerExit(w)

InitDec == DecStart /\ SeqOff /\ PipeOff /\ LazyOff /\ LockOff /\ QueueOff
NextDec ==
    \/ DecBatchStep \/ DecCtorSpawn \/ DecWorkerStepStep \/ DecWorkerExitStep
    \/ DecSync \/ DriverValidate
SpecDec == InitDec /\ [][NextDec]_vars

\* ------------------------------------------------- the lazy strategy
LazyThreads == 0..(lazy_threads - 1)
LazyPositions == 0..(lazy_batch - 1)

\* a window that holds no iteration
FlushWindowNone(lo, hi) == {}

\* a window that leaves out its last iteration
FlushWindowShort(lo, hi) == lo..(hi - 2)

\* for (size_t i = left; i < right; i++): the iterations of the parallel for
FlushWindow(lo, hi) == lo..(hi - 1)

\* FenwickTreeLSync::sum: atomic loads of the cells of the query walk
LSyncSum(b, x) == SumWalk(b, x + 1)

\* base_tree and test_tree are made, no batch has run
LazyStart ==
    /\ lazy_pc = "batch"
    /\ lazy_n \in 1..MaxLazyN
    /\ lazy_threads \in 1..MaxLazyThreads
    /\ lazy_batch \in 1..MaxLazyBatch
    /\ lazy_ops = <<>>
    /\ lazy_base = [k \in 0..lazy_n |-> 0]
    /\ lazy_seq = [i \in LazyPositions |-> 0]
    /\ test_tree = [k \in 0..lazy_n |-> 0]
    /\ test_res = [i \in LazyPositions |-> 0]
    /\ left = 0 /\ right = 0
    /\ flush_todo = {}
    /\ flush_iter = [t \in LazyThreads |-> -1]
    /\ flush_x = [t \in LazyThreads |-> 0]
    /\ lazy_batches = 0

\* the batch is generated and run on base_tree; size_t left = 0, right = 0
LazyBatch(ops) ==
    /\ lazy_pc = "batch"
    /\ lazy_batches < MaxLazyBatches
    /\ lazy_ops' = ops
    /\ LET pass == BasePass(ops, 0, lazy_batch, lazy_n, lazy_base,
                            [i \in LazyPositions |-> 0])
       IN lazy_base' = pass[1] /\ lazy_seq' = pass[2]
    /\ test_res' = [i \in LazyPositions |-> 0]
    /\ left' = 0 /\ right' = 0
    /\ lazy_pc' = "scan"
    /\ UNCHANGED <<lazy_n, lazy_threads, lazy_batch, test_tree, flush_todo,
                   flush_iter, flush_x, lazy_batches>>
    /\ UNCHANGED lazyOthers

\* op.command != 'q': right++
LazySkip ==
    /\ lazy_pc = "scan"
    /\ right < lazy_batch
    /\ lazy_ops[right].command # "q"
    /\ right' = right + 1
    /\ UNCHANGED <<lazy_pc, lazy_n, lazy_threads, lazy_batch, lazy_ops, lazy_base,
                   lazy_seq, test_tree, test_res, left, flush_todo, flush_iter,
                   flush_x, lazy_batches>>
    /\ UNCHANGED lazyOthers

\* op.command == 'q': the parallel for over [left, right) starts
LazyFlush ==
    /\ lazy_pc = "scan"
    /\ right < lazy_batch
    /\ lazy_ops[right].command = "q"
    /\ flush_todo' = FlushWindow(left, right)
    /\ lazy_pc' = "flush"
    /\ UNCHANGED <<lazy_n, lazy_threads, lazy_batch, lazy_ops, lazy_base,
                   lazy_seq, test_tree, test_res, left, right, flush_iter,
                   flush_x, lazy_batches>>
    /\ UNCHANGED lazyOthers

\* right == batch_size: the parallel for over [left, batch_size) starts
LazyTail ==
    /\ lazy_pc = "scan"
    /\ right = lazy_batch
    /\ flush_todo' = FlushWindow(left, lazy_batch)
    /\ lazy_pc' = "tail"
    /\ UNCHANGED <<lazy_n, lazy_threads, lazy_batch, lazy_ops, lazy_base,
                   lazy_seq, test_tree, test_res, left, right, flush_iter,
                   flush_x, lazy_batches>>
    /\ UNCHANGED lazyOthers

\* a thread of the team starts iteration i: test_tree->add(index, value), ++x
FlushClaim(t, i) ==
    /\ lazy_pc \in {"flush", "tail"}
    /\ flush_iter[t] = -1
    /\ i \in flush_todo
    /\ flush_todo' = flush_todo \ {i}
    /\ flush_iter' = [flush_iter EXCEPT ![t] = i]
    /\ flush_x' = [flush_x EXCEPT ![t] = lazy_ops[i].index + 1]
    /\ UNCHANGED <<lazy_pc, lazy_n, lazy_threads, lazy_batch, lazy_ops, lazy_base,
                   lazy_seq, test_tree, test_res, left, right, lazy_batches>>
    /\ UNCHANGED lazyOthers

\* FenwickTreeLSync::add: fetch_add on the cell x, x += x & -x
FlushCell(t) ==
    /\ flush_iter[t] # -1
    /\ LET x == flush_x[t]
           nx == x + lowbit(x)
       IN /\ test_tree' = [test_tree EXCEPT ![x] = @ + lazy_ops[flush_iter[t]].value]
          /\ IF nx < lazy_n + 1
             THEN flush_x' = [flush_x EXCEPT ![t] = nx] /\ UNCHANGED flush_iter
             ELSE /\ flush_x' = [flush_x EXCEPT ![t] = 0]
                  /\ flush_iter' = [flush_iter EXCEPT ![t] = -1]
    /\ UNCHANGED <<lazy_pc, lazy_n, lazy_threads, lazy_batch, lazy_ops, lazy_base,
                   lazy_seq, test_res, left, right, flush_todo, lazy_batches>>
    /\ UNCHANGED lazyOthers

\* the parallel for has joined: test_res += test_tree->sum(op.index);
\* left = right + 1; right++
LazyQuery ==
    /\ lazy_pc = "flush"
    /\ flush_todo = {}
    /\ \A t \in LazyThreads : flush_iter[t] = -1
    /\ test_res' = [test_res EXCEPT ![right] = LSyncSum(test_tree, lazy_ops[right].index)]
    /\ left' = right + 1
    /\ right' = right + 1
    /\ lazy_pc' = "scan"
    /\ UNCHANGED <<lazy_n, lazy_threads, lazy_batch, lazy_ops, lazy_base,
                   lazy_seq, test_tree, flush_todo, flush_iter, flush_x,
                   lazy_batches>>
    /\ UNCHANGED lazyOthers

\* the last parallel for has joined: if (seq_res != test_res) return -1;
LazyCompare ==
    /\ lazy_pc = "tail"
    /\ flush_todo = {}
    /\ \A t \in LazyThreads : flush_iter[t] = -1
    /\ lazy_pc' = IF SumTo(lazy_seq, lazy_batch - 1) # SumTo(test_res, lazy_batch - 1)
                  THEN "diff" ELSE "batch"
    /\ lazy_batches' = lazy_batches + 1
    /\ UNCHANGED <<lazy_n, lazy_threads, lazy_batch, lazy_ops, lazy_base,
                   lazy_seq, test_tree, test_res, left, right, flush_todo,
                   flush_iter, flush_x>>
    /\ UNCHANGED lazyOthers

LazyBatchStep == \E ops \in [LazyPositions -> SchedOperations(lazy_n)] : LazyBatch(ops)
FlushClaimStep == \E t \in LazyThreads : \E i \in flush_todo : FlushClaim(t, i)
FlushCellStep == \E t \in LazyThreads : FlushCell(t)

InitLazy == LazyStart /\ SeqOff /\ PipeOff /\ SchedOff /\ LockOff /\ QueueOff
NextLazy ==
    \/ LazyBatchStep \/ LazySkip \/ LazyFlush \/ LazyTail \/ FlushClaimStep
    \/ FlushCellStep \/ LazyQuery \/ LazyCompare
SpecLazy == InitLazy /\ [][NextLazy]_vars

\* ------------------------------------------------------- FenwickTreeLocked
lock_size == 16384

\* the sizes n FenwickTreeLocked is built with: one block, and two blocks
LockSizes == {MaxLockSmallN, lock_size + 1}

\* the indices add is called with: every index of a small tree; of a tree
\* of two blocks the indices whose walk ends in, crosses into, or starts in
\* the second block
LockAddIndices(n) ==
    IF n < lock_size THEN 0..(n - 1)
    ELSE {i \in {lock_size - 2, lock_size - 1, lock_size} : i < n}

\* the indices sum is called with
LockSumIndices(n) ==
    IF n < lock_size THEN 0..(n - 1)
    ELSE {i \in {lock_size - 1, lock_size} : i < n}

RECURSIVE AddCells(_, _)
\* the cells add visits from x: x, x + (x & -x), ... below size
AddCells(x, size) == IF x < size THEN {x} \cup AddCells(x + lowbit(x), size) ELSE {}

RECURSIVE SumCells(_)
\* the cells sum visits from x: x, x - (x & -x), ... above 0
SumCells(x) == IF x > 0 THEN {x} \cup SumCells(x - lowbit(x)) ELSE {}

\* the cells of bits some call of the model reads or writes; every other
\* cell of the vector stays 0 and is left out of lk_bits
LockCells(n) ==
    UNION {AddCells(i + 1, n + 1) : i \in LockAddIndices(n)}
        \cup UNION {SumCells(i + 1) : i \in LockSumIndices(n)}

\* bits[k] of cells b: a cell that no call of the model writes holds 0
LockCell(b, k) == IF k \in DOMAIN b THEN b[k] ELSE 0

\* Generator::next restricted to the indices above: command and index
LockOperations(n) ==
    [command : {"a"}, index : LockAddIndices(n)]
        \cup [command : {"q"}, index : LockSumIndices(n)]

\* the values of a batch: the add at position i carries 2^(i-1), so that no
\* two sets of adds of one batch have the same sum
LockValued(ops) ==
    [i \in 1..Len(ops) |->
        [command |-> ops[i].command, index |-> ops[i].index,
         value |-> IF ops[i].command = "a" THEN 2 ^ (i - 1) ELSE 0]]

LockThreads == 0..(lk_threads - 1)
LockIterations == 0..(Len(lk_batch) - 1)

\* a crossing into another block that keeps the mutex it holds
NeedsRelockNever(prev_x, x) == FALSE

\* if (prev_x / lock_size != x / lock_size)
NeedsRelock(prev_x, x) == prev_x \div lock_size # x \div lock_size

\* an unlock that leaves the mutex held
UnlockedNot(mx, block) == mx

\* lock.unlock() / ~unique_lock(): the mutex of the block is free again
Unlocked(mx, block) == [mx EXCEPT ![block] = -1]

\* a mutex that is given to whoever asks
AcquirableAlways(mx, block) == TRUE

\* std::unique_lock<std::mutex> lock(mutexes[block]) returns when it is free
Acquirable(mx, block) == mx[block] = -1

\* a sum walk that halves x
SumNextHalf(x) == x \div 2

\* x -= x & -x
SumNext(x) == x - lowbit(x)

\* per thread: no iteration taken
LockIdle == [pc |-> "idle", op |-> -1, x |-> 0, prev_x |-> 0, val |-> 0,
             acc |-> 0, total |-> 0, seen |-> {}]

\* FenwickTreeLocked fenwick_tree(size): bits(n + 1), mutexes(n + 1)
LockStart ==
    /\ lk_pc = "batch"
    /\ lk_n \in LockSizes
    /\ lk_threads \in 1..MaxLockThreads
    /\ lk_bits = [k \in LockCells(lk_n) |-> 0]
    /\ mutexes = [b \in 0..(lk_n \div lock_size) |-> -1]
    /\ lk_batch = <<>>
    /\ lk_todo = {}
    /\ lk_t = [t \in LockThreads |-> LockIdle]
    /\ lk_before = lk_bits
    /\ lk_done = {}
    /\ lk_sums = {}
    /\ lk_batches = 0

\* for (size_t i = 0; i < batch_size; ++i) operations[i] = generator.next();
\* then the parallel region opens
LockBatch(ops) ==
    /\ lk_pc = "batch"
    /\ lk_batches < MaxLockBatches
    /\ lk_batch' = ops
    /\ lk_todo' = 0..(Len(ops) - 1)
    /\ lk_before' = lk_bits
    /\ lk_done' = {}
    /\ lk_sums' = {}
    /\ lk_batches' = lk_batches + 1
    /\ lk_pc' = "parallel"
    /\ UNCHANGED <<lk_n, lk_threads, lk_bits, mutexes, lk_t>>

\* a thread of the team takes iteration i: add does ++x, sum does
\* total = 0 and ++x. The threads of a team are alike, so of the threads
\* that run nothing the one of lowest number takes it
LockTake(t, i) ==
    /\ lk_pc = "parallel"
    /\ lk_t[t].pc = "idle"
    /\ \A u \in LockThreads : u < t => lk_t[u].pc # "idle"
    /\ i \in lk_todo
    /\ lk_todo' = lk_todo \ {i}
    /\ lk_t' = [lk_t EXCEPT ![t] =
            [pc |-> IF lk_batch[i + 1].command = "a" THEN "lock" ELSE "sum",
             op |-> i, x |-> lk_batch[i + 1].index + 1, prev_x |-> 0,
             val |-> lk_batch[i + 1].value, acc |-> 0, total |-> 0,
             seen |-> lk_done]]
    /\ UNCHANGED <<lk_pc, lk_n, lk_threads, lk_bits, mutexes, lk_batch,
                   lk_before, lk_done, lk_sums, lk_batches>>

\* std::unique_lock lock(mutexes[x / lock_size]); prev_x = x;
LockAcquire(t) ==
    /\ lk_t[t].pc = "lock"
    /\ Acquirable(mutexes, lk_t[t].x \div lock_size)
    /\ mutexes' = [mutexes EXCEPT ![lk_t[t].x \div lock_size] = t]
    /\ lk_t' = [lk_t EXCEPT ![t].pc = "loop", ![t].prev_x = lk_t[t].x]
    /\ UNCHANGED <<lk_pc, lk_n, lk_threads, lk_bits, lk_batch, lk_todo,
                   lk_before, lk_done, lk_sums, lk_batches>>

\* x < bits.size() and the block changed: lock.unlock(), then lock again
LockUnlock(t) ==
    /\ lk_t[t].pc = "loop"
    /\ lk_t[t].x < lk_n + 1
    /\ NeedsRelock(lk_t[t].prev_x, lk_t[t].x)
    /\ mutexes' = Unlocked(mutexes, lk_t[t].prev_x \div lock_size)
    /\ lk_t' = [lk_t EXCEPT ![t].pc = "lock"]
    /\ UNCHANGED <<lk_pc, lk_n, lk_threads, lk_bits, lk_batch, lk_todo,
                   lk_before, lk_done, lk_sums, lk_batches>>

\* bits[x] += val, the read of the cell
LockLoad(t) ==
    /\ lk_t[t].pc = "loop"
    /\ lk_t[t].x < lk_n + 1
    /\ ~NeedsRelock(lk_t[t].prev_x, lk_t[t].x)
    /\ lk_t' = [lk_t EXCEPT ![t].pc = "store", ![t].acc = lk_bits[lk_t[t].x]]
    /\ UNCHANGED <<lk_pc, lk_n, lk_threads, lk_bits, mutexes, lk_batch,
                   lk_todo, lk_before, lk_done, lk_sums, lk_batches>>

\* bits[x] += val, the write of the cell; x += x & -x
LockStore(t) ==
    /\ lk_t[t].pc = "store"
    /\ lk_bits' = [lk_bits EXCEPT ![lk_t[t].x] = lk_t[t].acc + lk_t[t].val]
    /\ lk_t' = [lk_t EXCEPT ![t].pc = "loop",
                            ![t].x = lk_t[t].x + lowbit(lk_t[t].x)]
    /\ UNCHANGED <<lk_pc, lk_n, lk_threads, mutexes, lk_batch, lk_todo,
                   lk_before, lk_done, lk_sums, lk_batches>>

\* x >= bits.size(): add returns and ~unique_lock releases the mutex
LockReturn(t) ==
    /\ lk_t[t].pc = "loop"
    /\ lk_t[t].x >= lk_n + 1
    /\ mutexes' = Unlocked(mutexes, lk_t[t].prev_x \div lock_size)
    /\ lk_done' = lk_done \cup {lk_t[t].op}
    /\ lk_t' = [lk_t EXCEPT ![t] = LockIdle]
    /\ UNCHANGED <<lk_pc, lk_n, lk_threads, lk_bits, lk_batch, lk_todo,
                   lk_before, lk_sums, lk_batches>>

\* total += bits[x]; x -= x & -x, with no mutex
LockSumRead(t) ==
    /\ lk_t[t].pc = "sum"
    /\ lk_t[t].x > 0
    /\ lk_t' = [lk_t EXCEPT ![t].total = lk_t[t].total + LockCell(lk_bits, lk_t[t].x),
                            ![t].x = SumNext(lk_t[t].x)]
    /\ UNCHANGED <<lk_pc, lk_n, lk_threads, lk_bits, mutexes, lk_batch,
                   lk_todo, lk_before, lk_done, lk_sums, lk_batches>>

\* return total; lk_sums keeps what sum returned together with the adds that
\* had returned when it was called and those called by the time it returned
LockSumReturn(t) ==
    /\ lk_t[t].pc = "sum"
    /\ lk_t[t].x <= 0
    /\ lk_sums' = lk_sums \cup
            {[op |-> lk_t[t].op, result |-> lk_t[t].total,
              before |-> lk_t[t].seen,
              called |-> LockIterations \ (lk_todo \cup lk_t[t].seen)]}
    /\ lk_done' = lk_done \cup {lk_t[t].op}
    /\ lk_t' = [lk_t EXCEPT ![t] = LockIdle]
    /\ UNCHANGED <<lk_pc, lk_n, lk_threads, lk_bits, mutexes, lk_batch,
                   lk_todo, lk_before, lk_batches>>

\* the end of the parallel region: every iteration ran and the team joins
LockJoin ==
    /\ lk_pc = "parallel"
    /\ lk_todo = {}
    /\ \A t \in LockThreads : lk_t[t].pc = "idle"
    /\ lk_pc' = "batch"
    /\ UNCHANGED <<lk_n, lk_threads, lk_bits, mutexes, lk_batch, lk_todo,
                   lk_t, lk_before, lk_done, lk_sums, lk_batches>>

LockBatchStep ==
    /\ \E k \in 1..MaxLockBatch :
         \E ops \in [1..k -> LockOperations(lk_n)] : LockBatch(LockValued(ops))
    /\ UNCHANGED lockOthers
LockTakeStep ==
    /\ \E t \in LockThreads : \E i \in lk_todo : LockTake(t, i)
    /\ UNCHANGED lockOthers
LockThreadStep(t) ==
    /\ t \in LockThreads
    /\ \/ LockAcquire(t) \/ LockUnlock(t) \/ LockLoad(t) \/ LockStore(t)
       \/ LockReturn(t) \/ LockSumRead(t) \/ LockSumReturn(t)
    /\ UNCHANGED lockOthers
LockAcquireStep == (\E t \in LockThreads : LockAcquire(t)) /\ UNCHANGED lockOthers
LockUnlockStep == (\E t \in LockThreads : LockUnlock(t)) /\ UNCHANGED lockOthers
LockLoadStep == (\E t \in LockThreads : LockLoad(t)) /\ UNCHANGED lockOthers
LockStoreStep == (\E t \in LockThreads : LockStore(t)) /\ UNCHANGED lockOthers
LockReturnStep == (\E t \in LockThreads : LockReturn(t)) /\ UNCHANGED lockOthers
LockSumReadStep == (\E t \in LockThreads : LockSumRead(t)) /\ UNCHANGED lockOthers
LockSumReturnStep == (\E t \in LockThreads : LockSumReturn(t)) /\ UNCHANGED lockOthers
LockJoinStep == LockJoin /\ UNCHANGED lockOthers

InitLock == LockStart /\ SeqOff /\ PipeOff /\ SchedOff /\ LazyOff /\ QueueOff
NextLock ==
    \/ LockBatchStep \/ LockTakeStep \/ LockAcquireStep \/ LockUnlockStep
    \/ LockLoadStep \/ LockStoreStep \/ LockReturnStep \/ LockSumReadStep
    \/ LockSumReturnStep \/ LockJoinStep
SpecLock == InitLock /\ [][NextLock]_vars

\* the team's threads are scheduled fairly: a thread that can take an
\* iteration or a step of its call does so, and the region closes
LockFairness ==
    /\ \A t \in 0..(MaxLockThreads - 1) :
         WF_vars(LockThreadStep(t)
                 \/ ((\E i \in lk_todo : t \in LockThreads /\ LockTake(t, i))
                     /\ UNCHANGED lockOthers))
    /\ WF_vars(LockJoinStep)
SpecLockFair == InitLock /\ [][NextLock]_vars /\ LockFairness

\* ------------------------------------------------------- LockingQueue
\* the threads that call push, pop and close on one LockingQueue
QueueThreads == 1..MaxQueueThreads

\* the thread is at the start of a call it may still make
QueueIdle(t) == lq_t[t].pc = "idle" /\ lq_t[t].calls < MaxQueueCalls

\* LockingQueue(max_length_): queue_ = new queue<T>(), closed = false
QueueStart ==
    /\ lq_pc = "on"
    /\ max_length_ \in 1..MaxQueueLength
    /\ queue_ = <<>>
    /\ closed = FALSE
    /\ lq_m = 0
    /\ lq_t = [t \in QueueThreads |-> [pc |-> "idle", calls |-> 0, pushed |-> 0]]
    /\ lq_popped = <<>>

\* lq_t after thread t has moved to pc (its call has returned if done = 1)
\* and thread w, if it is one, has been woken to pc wpc
QueueMoved(t, pc, done, w, wpc) ==
    [u \in QueueThreads |->
        IF u = t THEN [lq_t[u] EXCEPT !.pc = pc, !.calls = @ + done]
        ELSE IF u = w THEN [lq_t[u] EXCEPT !.pc = wpc]
        ELSE lq_t[u]]

\* the threads blocked in a wait of producer_cv_, of consumer_cv_
ProducersWaiting == {u \in QueueThreads : lq_t[u].pc = "push_wait"}
ConsumersWaiting == {u \in QueueThreads : lq_t[u].pc = "pop_wait"}

\* notify_one() on a condition variable with the waiters ws: the thread it
\* wakes, 0 when no thread waits
NotifiedOne(ws) == IF ws = {} THEN {0} ELSE ws

\* a push that never waits
PushMustWaitNever(q, max) == FALSE

\* while (queue_->size() == max_length_)
PushMustWait(q, max) == Len(q) = max

\* a pop that takes the element pushed last
QueueTakenLast(q) == <<q[Len(q)], SubSeq(q, 1, Len(q) - 1)>>

\* T rc(std::move(queue_->front())); queue_->pop();
QueueTaken(q) == <<Head(q), Tail(q)>>

\* a thread calls push(value): it goes for the mutex
PushCall(t) ==
    /\ lq_pc = "on" /\ QueueIdle(t)
    /\ lq_t' = QueueMoved(t, "push_lock", 0, 0, "")
    /\ UNCHANGED <<lq_pc, max_length_, queue_, closed, lq_m, lq_popped>>
    /\ UNCHANGED queueOthers

\* unique_lock<mutex> locker(m), or the wait of producer_cv_ has the mutex
\* back; while (queue_->size() == max_length_) producer_cv_.wait(locker);
\* queue_->emplace(value); the block ends and the mutex is released
PushEnter(t) ==
    /\ lq_pc = "on"
    /\ lq_t[t].pc \in {"push_lock", "push_relock"}
    /\ lq_m = 0
    /\ IF PushMustWait(queue_, max_length_)
       THEN /\ lq_t' = QueueMoved(t, "push_wait", 0, 0, "")
            /\ UNCHANGED queue_
       ELSE /\ queue_' = Append(queue_, <<t, lq_t[t].pushed + 1>>)
            /\ lq_t' = [lq_t EXCEPT ![t].pc = "push_notify", ![t].pushed = @ + 1]
    /\ UNCHANGED <<lq_pc, max_length_, closed, lq_m, lq_popped>>
    /\ UNCHANGED queueOthers

\* consumer_cv_.notify_one(); push returns
PushNotify(t) ==
    /\ lq_pc = "on"
    /\ lq_t[t].pc = "push_notify"
    /\ \E w \in NotifiedOne(ConsumersWaiting) :
          lq_t' = QueueMoved(t, "idle", 1, w, "pop_relock")
    /\ UNCHANGED <<lq_pc, max_length_, queue_, closed, lq_m, lq_popped>>
    /\ UNCHANGED queueOthers

\* a thread calls pop(): it goes for the mutex
PopCall(t) ==
    /\ lq_pc = "on" /\ QueueIdle(t)
    /\ lq_t' = QueueMoved(t, "pop_lock", 0, 0, "")
    /\ UNCHANGED <<lq_pc, max_length_, queue_, closed, lq_m, lq_popped>>
    /\ UNCHANGED queueOthers

\* unique_lock<mutex> locker(m), or the wait of consumer_cv_ has the mutex
\* back.  A queue that holds an element: front, pop, producer_cv_.notify_one(),
\* return (the mutex is released).  An empty queue: the predicate
\* closed || !queue_->empty() is evaluated with the mutex held; when closed is
\* set the wait returns at once, the outer while finds the queue empty and
\* calls it again, and so on, the mutex never released ("pop_spin").
PopEnter(t) ==
    /\ lq_pc = "on"
    /\ lq_t[t].pc \in {"pop_lock", "pop_relock"}
    /\ lq_m = 0
    /\ IF queue_ # <<>>
       THEN /\ lq_popped' = Append(lq_popped, QueueTaken(queue_)[1])
            /\ queue_' = QueueTaken(queue_)[2]
            /\ \E w \in NotifiedOne(ProducersWaiting) :
                  lq_t' = QueueMoved(t, "idle", 1, w, "push_relock")
            /\ UNCHANGED lq_m
       ELSE /\ lq_t' = QueueMoved(t, IF closed THEN "pop_spin" ELSE "pop_block", 0, 0, "")
            /\ lq_m' = t
            /\ UNCHANGED <<queue_, lq_popped>>
    /\ UNCHANGED <<lq_pc, max_length_, closed>>
    /\ UNCHANGED queueOthers

\* the predicate was false: consumer_cv_.wait releases the mutex and blocks
PopBlock(t) ==
    /\ lq_pc = "on"
    /\ lq_t[t].pc = "pop_block"
    /\ lq_m' = 0
    /\ lq_t' = QueueMoved(t, "pop_wait", 0, 0, "")
    /\ UNCHANGED <<lq_pc, max_length_, queue_, closed, lq_popped>>
    /\ UNCHANGED queueOthers

\* a wait of a condition variable returns though no thread has notified it
SpuriousWake(t) ==
    /\ lq_pc = "on"
    /\ lq_t[t].pc \in {"push_wait", "pop_wait"}
    /\ lq_t' = QueueMoved(t, IF lq_t[t].pc = "push_wait" THEN "push_relock"
                             ELSE "pop_relock", 0, 0, "")
    /\ UNCHANGED <<lq_pc, max_length_, queue_, closed, lq_m, lq_popped>>
    /\ UNCHANGED queueOthers

\* a thread calls close(), once per queue
CloseCall(t) ==
    /\ lq_pc = "on" /\ QueueIdle(t)
    /\ ~closed
    /\ \A u \in QueueThreads :
          lq_t[u].pc \notin {"close_lock", "close_one", "close_set", "close_all"}
    /\ lq_t' = QueueMoved(t, "close_lock", 0, 0, "")
    /\ UNCHANGED <<lq_pc, max_length_, queue_, closed, lq_m, lq_popped>>
    /\ UNCHANGED queueOthers

\* while (!empty()): empty() takes the mutex, reads queue_->empty() and
\* releases the mutex
CloseEmpty(t) ==
    /\ lq_pc = "on"
    /\ lq_t[t].pc = "close_lock"
    /\ lq_m = 0
    /\ lq_t' = QueueMoved(t, IF queue_ = <<>> THEN "close_set" ELSE "close_one", 0, 0, "")
    /\ UNCHANGED <<lq_pc, max_length_, queue_, closed, lq_m, lq_popped>>
    /\ UNCHANGED queueOthers

\* the body of the while of close(): consumer_cv_.notify_one()
CloseNotifyOne(t) ==
    /\ lq_pc = "on"
    /\ lq_t[t].pc = "close_one"
    /\ \E w \in NotifiedOne(ConsumersWaiting) :
          lq_t' = QueueMoved(t, "close_lock", 0, w, "pop_relock")
    /\ UNCHANGED <<lq_pc, max_length_, queue_, closed, lq_m, lq_popped>>
    /\ UNCHANGED queueOthers

\* closed = true, written without the mutex
CloseSet(t) ==
    /\ lq_pc = "on"
    /\ lq_t[t].pc = "close_set"
    /\ closed' = TRUE
    /\ lq_t' = QueueMoved(t, "close_all", 0, 0, "")
    /\ UNCHANGED <<lq_pc, max_length_, queue_, lq_m, lq_popped>>
    /\ UNCHANGED queueOthers

\* producer_cv_.notify_all(); consumer_cv_.notify_all(); close returns
CloseNotifyAll(t) ==
    /\ lq_pc = "on"
    /\ lq_t[t].pc = "close_all"
    /\ lq_t' = [u \in QueueThreads |->
                  IF u = t THEN [lq_t[u] EXCEPT !.pc = "idle", !.calls = @ + 1]
                  ELSE IF u \in ProducersWaiting THEN [lq_t[u] EXCEPT !.pc = "push_relock"]
                  ELSE IF u \in ConsumersWaiting THEN [lq_t[u] EXCEPT !.pc = "pop_relock"]
                  ELSE lq_t[u]]
    /\ UNCHANGED <<lq_pc, max_length_, queue_, closed, lq_m, lq_popped>>
    /\ UNCHANGED queueOthers

PushCallStep == \E t \in QueueThreads : PushCall(t)
PushEnterStep == \E t \in QueueThreads : PushEnter(t)
PushNotifyStep == \E t \in QueueThreads : PushNotify(t)
PopCallStep == \E t \in QueueThreads : PopCall(t)
PopEnterStep == \E t \in QueueThreads : PopEnter(t)
PopBlockStep == \E t \in QueueThreads : PopBlock(t)
SpuriousWakeStep == \E t \in QueueThreads : SpuriousWake(t)
CloseCallStep == \E t \in QueueThreads : CloseCall(t)
CloseEmptyStep == \E t \in QueueThreads : CloseEmpty(t)
CloseNotifyOneStep == \E t \in QueueThreads : CloseNotifyOne(t)
CloseSetStep == \E t \in QueueThreads : CloseSet(t)
CloseNotifyAllStep == \E t \in QueueThreads : CloseNotifyAll(t)

InitQueue == QueueStart /\ SeqOff /\ PipeOff /\ SchedOff /\ LazyOff /\ LockOff
NextQueue ==
    \/ PushCallStep \/ PushEnterStep \/ PushNotifyStep \/ PopCallStep
    \/ PopEnterStep \/ PopBlockStep \/ SpuriousWakeStep \/ CloseCallStep
    \/ CloseEmptyStep \/ CloseNotifyOneStep \/ CloseSetStep \/ CloseNotifyAllStep
SpecQueue == InitQueue /\ [][NextQueue]_vars

\* the threads run: a thread inside a call takes the step it can take (a
\* blocked wait and a wait for the mutex are disabled steps); no thread has
\* to start a call and no wait has to return unnotified
QueueFairness ==
    \A t \in QueueThreads :
        WF_vars(PushEnter(t) \/ PushNotify(t) \/ PopEnter(t) \/ PopBlock(t)
                \/ CloseEmpty(t) \/ CloseNotifyOne(t) \/ CloseSet(t)
                \/ CloseNotifyAll(t))
SpecQueueFair == InitQueue /\ [][NextQueue]_vars /\ QueueFairness

\* ------------------------------------------------------- specifications
InitPipe == PipeStart /\ SeqOff /\ SchedOff /\ LazyOff /\ LockOff /\ QueueOff
NextPipe ==
    \/ BatchAddStep \/ ReadRangeStep \/ Barrier \/ LoadCellStep \/ StoreCellStep
    \/ DepositStep \/ PropagateStep \/ SingleStep \/ Join
SpecPipe == InitPipe /\ [][NextPipe]_vars

\* a batch followed by its inverse batch on one pipeline tree
\* the same indices with negated values
Inverse(ops) ==
    [k \in 1..Len(ops) |-> [index |-> ops[k].index, value |-> 0 - ops[k].value]]

RoundFirstStep == batches = 0 /\ \E ops \in Batches(p_n) : BatchAdd(ops)
RoundInverseStep == batches = 1 /\ BatchAdd(Inverse(operations))

NextRound ==
    \/ RoundFirstStep \/ RoundInverseStep \/ ReadRangeStep \/ Barrier
    \/ LoadCellStep \/ StoreCellStep \/ DepositStep \/ PropagateStep
    \/ SingleStep \/ Join
SpecRound == InitPipe /\ [][NextRound]_vars

\* a FenwickTreePipelineSemiStatic that is given empty batches: its ranges move
\* with every call whatever the batch holds
ShiftStart ==
    /\ p_class = "SemiStatic"
    /\ p_n \in 1..MaxShiftN
    /\ num_threads \in 1..MaxThreads
    /\ step \in {StepInit(a) : a \in 0..MaxStepArg}
    /\ bits = [k \in 0..p_n |-> 0]
    /\ local_bits = <<>>
    /\ ranges = InitializeRanges(p_n, num_threads, p_class)
    /\ p_pc = "idle"
    /\ ctor_i = num_threads
    /\ ctor_cur = ranges[num_threads - 1][1]
    /\ BatchStart

ShiftBatchStep == BatchAdd(<<>>)

InitShift == ShiftStart /\ SeqOff /\ SchedOff /\ LazyOff /\ LockOff /\ QueueOff
NextShift == ShiftBatchStep \/ ReadRangeStep \/ Barrier \/ SingleStep \/ Join
SpecShift == InitShift /\ [][NextShift]_vars

InitRanges == CtorStart /\ SeqOff /\ SchedOff /\ LazyOff /\ LockOff /\ QueueOff
NextRanges == CtorRangeStep \/ CtorLoopExit \/ CtorRangesBack
SpecRanges == InitRanges /\ [][NextRanges]_vars

Init == SeqStart /\ PipeOff /\ SchedOff /\ LazyOff /\ LockOff /\ QueueOff
Next == SeqAddStep \/ SeqSumStep
Spec == Init /\ [][Next]_vars

\* every executor built with one thread / one worker
InitOne ==
    \/ PipeStart /\ num_threads = 1 /\ SeqOff /\ SchedOff /\ LazyOff /\ LockOff /\ QueueOff
    \/ SchedStart /\ num_workers_ = 1 /\ SeqOff /\ PipeOff /\ LazyOff /\ LockOff /\ QueueOff
    \/ DecStart /\ num_workers_ = 1 /\ SeqOff /\ PipeOff /\ LazyOff /\ LockOff /\ QueueOff
NextOne ==
    \/ NextPipe
    \/ s_class \in {"Scheduler", "LockFreeScheduler"} /\ NextSched
    \/ s_class = "DecentralizedScheduler" /\ NextDec
SpecOne == InitOne /\ [][NextOne]_vars

\* ------------------------------------------------------------------ claims
RECURSIVE WalkSet(_, _)
\* the cells of the update walk x, x + (x & -x), ... below size
WalkSet(x, size) == IF x < size THEN {x} \cup WalkSet(x + lowbit(x), size) ELSE {}

RECURSIVE OpsValueSum(_)
OpsValueSum(ops) == IF ops = <<>> THEN 0 ELSE Head(ops).value + OpsValueSum(Tail(ops))

RECURSIVE WalkValueSum(_, _, _)
\* the sum of the values of the operations whose update walk visits cell k
WalkValueSum(ops, k, size) ==
    IF ops = <<>> THEN 0
    ELSE (IF k \in WalkSet(Head(ops).index + 1, size) THEN Head(ops).value ELSE 0)
         + WalkValueSum(Tail(ops), k, size)

InRange(r, k) == r[1] <= k /\ k < r[2]
BatchReturned == p_pc = "idle" /\ batches >= 1

\* C5: after batchAdd on a zero tree, the full-range sum(n - 1) of a pipeline
\* executor equals the sum of all update values of the batch.
C5_FullSumIsBatchSum ==
    (BatchReturned /\ p_before = [k \in 0..p_n |-> 0])
        => TreeSum(bits, p_n - 1) = OpsValueSum(operations)

\* C6: over one batchAdd, every cell k in [1, n] is incremented by the value
\* of an update exactly once if k is on the update walk of index + 1, by the
\* thread whose range contains k, and not at all otherwise.
C6_NoDoubleVisit ==
    BatchReturned =>
        /\ \A k \in 1..p_n :
              bits[k] - p_before[k] = WalkValueSum(operations, k, p_n + 1)
        /\ p_class # "Aggregate" =>
              \A op \in 1..Len(operations), k \in 1..p_n :
                 LET writers == {t \in Threads : <<t, op, k>> \in p_log}
                 IN IF k \in WalkSet(operations[op].index + 1, p_n + 1)
                    THEN /\ Cardinality(writers) = 1
                         /\ \A t \in writers : InRange(<<t_lower[t], t_upper[t]>>, k)
                    ELSE writers = {}

RangesChain(rs, threads, size) ==
    /\ rs[0][1] = 1
    /\ rs[threads - 1][2] = size
    /\ \A w \in 0..(threads - 2) : rs[w][2] = rs[w + 1][1]
RangesOrdered(rs, threads) == \A w \in 0..(threads - 1) : rs[w][1] <= rs[w][2]
RangesDisjoint(rs, threads) ==
    \A w1, w2 \in 0..(threads - 1) :
        w1 # w2 => \A k \in rs[w1][1]..(rs[w1][2] - 1) : ~InRange(rs[w2], k)
RangesCoverAll(rs, threads, size) ==
    \A k \in 1..(size - 1) : \E w \in 0..(threads - 1) : InRange(rs[w], k)

\* C7: the ranges initialize_ranges produces form a disjoint cover of
\* [1, n + 1): lo_0 = 1, hi_{W-1} = n + 1, hi_w = lo_{w+1}, lo_w <= hi_w.
C7_InitialRangesCover ==
    p_pc = "idle" =>
        /\ RangesChain(ranges, num_threads, p_n + 1)
        /\ RangesOrdered(ranges, num_threads)
        /\ RangesDisjoint(ranges, num_threads)
        /\ RangesCoverAll(ranges, num_threads, p_n + 1)

\* more threads than the traffic feeds: a thread is left with an empty range
C7_Witness ==
    /\ p_pc = "idle"
    /\ num_threads >= 3
    /\ \E w \in 1..(num_threads - 2) : ranges[w][1] = ranges[w][2]
    /\ ranges[num_threads - 1][1] < ranges[num_threads - 1][2]

\* C8: after any number of batchAdd calls the ranges of the semi-static
\* pipeline are pairwise disjoint: lo_w <= hi_w and no index is in two ranges.
C8_RangesStayDisjoint ==
    (p_class = "SemiStatic" /\ p_pc = "idle") =>
        /\ RangesOrdered(ranges, num_threads)
        /\ RangesDisjoint(ranges, num_threads)

\* C9: after any number of batchAdd calls on the semi-static pipeline
\* lo_0 = 1, hi_{W-1} = n + 1 and hi_w = lo_{w+1} hold, and every index of
\* [1, n + 1) is in some range.
C9_CoverKept ==
    (p_class = "SemiStatic" /\ p_pc = "idle") =>
        /\ RangesChain(ranges, num_threads, p_n + 1)
        /\ RangesCoverAll(ranges, num_threads, p_n + 1)

\* two batches have each moved a boundary
C9_Witness ==
    /\ p_class = "SemiStatic" /\ p_pc = "idle" /\ batches = 2
    /\ num_threads = 3
    /\ LET r0 == InitializeRanges(p_n, num_threads, p_class)
       IN ranges[0][2] # r0[0][2] /\ ranges[1][2] # r0[1][2]

\* C10: every write a thread makes in batchAdd to bits (and, in Aggregate,
\* to local_bits) is at an index in [lower, upper), the range the thread read
\* at the start of the batch, also when the jump is taken.
C10_WritesInOwnRange ==
    \A e \in p_log : InRange(<<t_lower[e[1]], t_upper[e[1]]>>, e[3])

\* a thread has written a cell of an operation whose x was below its lower
C10_Witness ==
    \E e \in p_log :
        /\ e[2] > 0
        /\ operations[e[2]].index + 1 < t_lower[e[1]]
        /\ e[3] > t_lower[e[1]]

\* C1: after any sequence of add(i_k, v_k) calls on FenwickTreeSequential,
\* sum(i) is the sum of the v_k with i_k <= i, for every i in [0, n); the
\* value returned by the last sum call is that sum as well.
C1_SumIsPrefixSum ==
    /\ \A i \in 0..(seq_n - 1) : TreeSum(seq_bits, i) = SumTo(seq_array, i)
    /\ seq_ret # <<>> => seq_ret[2] = SumTo(seq_array, seq_ret[1])

\* a sum returned after MaxAdds updates that is not the value of one cell
C1_Witness ==
    /\ seq_calls = MaxAdds
    /\ seq_ret # <<>>
    /\ seq_ret[2] # 0
    /\ seq_ret[2] # seq_bits[seq_ret[1] + 1]
\* C2: for Scheduler and LockFreeScheduler, when sync() has returned,
\* results_[pos] of every query position equals what the sequential base_tree
\* returned for that query, every other cell is 0, and validate_sum() equals
\* the sum the sequential loop collected.
C2_CentralEqualsSequential ==
    (s_class \in {"Scheduler", "LockFreeScheduler"} /\ d_pc = "validate") =>
        /\ \A pos \in Positions : results_[pos] = seq_res[pos]
        /\ ValidateSum = SumTo(seq_res, batch_size_ - 1)

\* in the second batch a query between two updates has returned a sum that
\* holds updates of both batches and of both workers
C2_Witness ==
    /\ s_class \in {"Scheduler", "LockFreeScheduler"} /\ d_pc = "validate"
    /\ s_batches = 1 /\ num_workers_ = 2 /\ batch_size_ = 2
    /\ s_operations[0].command = "a" /\ s_operations[1].command = "q"
    /\ \A w \in Workers : TreeSum(local_trees_[w], tree_size_ - 1) > 0
    /\ results_[1] > TreeSum(local_trees_[0], s_operations[1].index)
    /\ results_[1] > TreeSum(local_trees_[1], s_operations[1].index)
\* C3: for DecentralizedScheduler, when sync() has returned, results_[pos] of
\* every query position equals what the sequential base_tree returned for
\* that query, in every interleaving of the workers.
C3_DecentralizedEqualsSequential ==
    (s_class = "DecentralizedScheduler" /\ d_pc = "validate") =>
        \A pos \in Positions :
            s_operations[pos].command = "q" => results_[pos] = seq_res[pos]

\* in the second batch a query after an update has returned a sum that no
\* single worker's tree holds
C3_Witness ==
    /\ s_class = "DecentralizedScheduler" /\ d_pc = "validate"
    /\ s_batches = 1 /\ num_workers_ = 2 /\ batch_size_ = 2
    /\ s_operations[0].command = "a" /\ s_operations[1].command = "q"
    /\ results_[1] > TreeSum(local_trees_[0], s_operations[1].index)
    /\ results_[1] > TreeSum(local_trees_[1], s_operations[1].index)
\* C4: in the lazy driver every query returns what the sequential base_tree
\* returned at the same position of the batch: the flush before it has added
\* every earlier update of the batch and no later one, in every interleaving
\* of the threads of the flush.
C4_LazyQueryEqualsSequential ==
    \A pos \in 0..(right - 1) :
        lazy_ops[pos].command = "q" => test_res[pos] = lazy_seq[pos]

\* in the second batch two threads have flushed a window of two updates and
\* the query after them has returned a sum that also holds an update of the
\* first batch
C4_Witness ==
    /\ lazy_pc = "scan" /\ lazy_threads = 2 /\ lazy_batch = 3 /\ right = 3
    /\ lazy_batches = 1
    /\ lazy_ops[0].command = "a" /\ lazy_ops[1].command = "a"
    /\ lazy_ops[2].command = "q"
    /\ test_res[2] > lazy_ops[0].value + lazy_ops[1].value
\* C11: when batchAdd of FenwickTreePipelineAggregate has returned, every
\* cell of local_bits is 0.
C11_LocalBitsZero ==
    (p_class = "Aggregate" /\ p_pc = "idle") =>
        \A k \in 0..p_n : local_bits[k] = 0

\* a one-update batch has returned whose deposit was carried on, inside the
\* range of the depositing thread, to a cell above the deposit
C11_Witness ==
    /\ p_class = "Aggregate" /\ BatchReturned /\ Len(operations) = 1
    /\ \E t \in Threads : \E k \in 1..p_n :
          /\ t_lower[t] <= operations[1].index + 1
          /\ operations[1].index + 1 < k
          /\ k < t_upper[t]
          /\ bits[k] # p_before[k]
RECURSIVE WorkersSum(_, _)
\* f[0] + ... + f[w] over the workers
WorkersSum(f, w) == IF w < 0 THEN 0 ELSE f[w] + WorkersSum(f, w - 1)

\* after a sync() has returned and before the next batch is taken
Quiescent == d_pc \in {"validate", "batch"} /\ queues_made = num_workers_

\* C13: whenever the scheduler is quiescent, for every index i the sum over
\* the workers of local_trees_[w].sum(i) equals base_tree.sum(i), cell for
\* cell the local trees add up to base_tree, and a step changes the tree of
\* worker w only when worker w handles an Update task.
C13_AggregationInvariant ==
    /\ [](Quiescent =>
            /\ \A i \in 0..(tree_size_ - 1) :
                  WorkersSum([w \in Workers |-> TreeSum(local_trees_[w], i)],
                             num_workers_ - 1) = TreeSum(base_bits, i)
            /\ \A k \in 0..tree_size_ :
                  WorkersSum([w \in Workers |-> local_trees_[w][k]],
                             num_workers_ - 1) = base_bits[k])
    /\ [][\A w \in Workers :
            local_trees_'[w] # local_trees_[w] =>
                /\ w_pc[w] = "task" /\ w_task[w].type = "Update"
                /\ w_pc'[w] = "wait"
                /\ \A v \in Workers \ {w} : local_trees_'[v] = local_trees_[v]]_vars

\* quiescent after the second batch, both workers holding updates and
\* neither tree equal to base_tree
C13_Witness ==
    /\ Quiescent /\ s_batches = 2 /\ num_workers_ = 2
    /\ \A w \in Workers : TreeSum(local_trees_[w], tree_size_ - 1) > 0
    /\ \A w \in Workers : local_trees_[w] # base_bits
\* C14: a batch followed by the inverse batch (same indices, negated values)
\* leaves every cell of bits equal to zero, for Pipeline, SemiStatic and
\* Aggregate.
C14_RoundTripZero ==
    (p_pc = "idle" /\ batches = 2) => \A k \in 0..p_n : bits[k] = 0
\* C15: a batchAdd call with an empty batch leaves the executor as it was:
\* bits, local_bits and the range of every thread are what they were when
\* the call started.
C15_EmptyBatchNoOp ==
    (BatchReturned /\ operations = <<>>) =>
        /\ bits = p_before
        /\ p_class = "Aggregate" => \A k \in 0..p_n : local_bits[k] = 0
        /\ \A t \in Threads : ranges[t] = <<t_lower[t], t_upper[t]>>
\* C16: with one thread, batchAdd of Pipeline, SemiStatic and Aggregate
\* leaves bits cell for cell as FenwickTreeSequential::batchAdd leaves it on
\* the same batch, the thread works on [1, n + 1) so that no jump is taken,
\* and no boundary is shifted; a scheduler with one worker returns the
\* sequential value for every query and its one tree is the sequential tree.
C16_OneWorkerIsSequential ==
    /\ (p_class # "none" /\ num_threads = 1) =>
          /\ ranges[0] = <<1, p_n + 1>>
          /\ (p_pc = "parallel" /\ t_pc[0] # "fork") =>
                 t_lower[0] = 1 /\ t_upper[0] = p_n + 1
          /\ BatchReturned => bits = SeqBatchAdd(p_before, operations, p_n + 1)
    /\ (s_class # "none" /\ num_workers_ = 1 /\ d_pc = "validate") =>
          /\ \A pos \in Positions :
                s_operations[pos].command = "q" => results_[pos] = seq_res[pos]
          /\ local_trees_[0] = base_bits

\* the second batch of a one-thread semi-static tree has returned and has
\* changed cells that the first batch had written
C16_Witness ==
    /\ p_class = "SemiStatic" /\ num_threads = 1 /\ BatchReturned
    /\ batches = 2 /\ Len(operations) = 1
    /\ \E k \in 1..p_n : p_before[k] # 0 /\ bits[k] # p_before[k]

\* the threads that are between the read and the write of bits[x] += val
LockWriters == {t \in LockThreads : lk_t[t].pc = "store"}

\* C17: FenwickTreeLocked::add writes bits[k] only while it holds the mutex
\* of block floor(k / lock_size), so no two adds that run at the same time
\* are writing cells of the same block.
C17_WritesUnderBlockMutex ==
    lk_pc = "parallel" =>
        /\ \A t \in LockWriters : mutexes[lk_t[t].x \div lock_size] = t
        /\ \A t, u \in LockWriters :
             t # u => lk_t[t].x \div lock_size # lk_t[u].x \div lock_size

\* two adds write at the same time, one in each block, and one of them has
\* crossed from the first block into the second
C17_Witness ==
    /\ lk_pc = "parallel"
    /\ Cardinality(LockWriters) = 2
    /\ \E t \in LockWriters :
         /\ lk_t[t].x \div lock_size = 1
         /\ lk_batch[lk_t[t].op + 1].index + 1 < lock_size

\* the blocks whose mutex thread t holds
LockHeld(t) == {b \in DOMAIN mutexes : mutexes[b] = t}

\* C18: FenwickTreeLocked::add holds at most one block mutex at any time (and
\* none once it has returned), a thread that locks again locks a block above
\* the one it held, and under fair scheduling every parallel region over
\* concurrent adds ends: every add terminates.
C18_OneMutexIncreasingNoDeadlock ==
    /\ [](lk_pc = "parallel" =>
            \A t \in LockThreads :
                /\ Cardinality(LockHeld(t)) <= 1
                /\ lk_t[t].pc \in {"idle", "sum"} => LockHeld(t) = {})
    /\ [][\A t \in LockThreads :
            (lk_t[t].pc = "lock" /\ lk_t'[t].pc = "loop" /\ lk_t[t].prev_x > 0)
                => lk_t[t].prev_x \div lock_size < lk_t[t].x \div lock_size]_vars
    /\ (lk_pc = "parallel") ~> (lk_pc = "batch" /\ \A b \in DOMAIN mutexes : mutexes[b] = -1)

\* an add that left the first block waits for the mutex of the second block,
\* which another add holds
C18_Witness ==
    /\ lk_pc = "parallel"
    /\ \E t, u \in LockThreads :
         /\ t # u
         /\ lk_t[t].pc = "lock"
         /\ lk_t[t].prev_x > 0
         /\ lk_t[t].x \div lock_size = 1
         /\ mutexes[1] = u
         /\ LockHeld(t) = {}

\* the adds of the running batch whose call has returned
LockAddsDone == {i \in lk_done : lk_batch[i + 1].command = "a"}

\* the cells after FenwickTreeSequential::add(index, value) on cells b
LockSeqAdd(b, index, value) ==
    [k \in DOMAIN b |->
        IF k \in AddCells(index + 1, lk_n + 1) THEN b[k] + value ELSE b[k]]

RECURSIVE LockSequential(_, _)
\* the cells after the adds at the iterations of set todo, one after another
LockSequential(b, todo) ==
    IF todo = {} THEN b
    ELSE LET i == CHOOSE j \in todo : \A k \in todo : j <= k
         IN LockSequential(LockSeqAdd(b, lk_batch[i + 1].index,
                                      lk_batch[i + 1].value), todo \ {i})

\* C19: once the concurrent adds on a FenwickTreeLocked have completed (no
\* add is running), every cell of bits equals what applying the same updates
\* one after another produces: no update is lost or applied twice.
C19_ConcurrentAddsEqualSequential ==
    (lk_pc \in {"parallel", "batch"}
        /\ \A t \in LockThreads : lk_t[t].pc \in {"idle", "sum"})
    => lk_bits = LockSequential(lk_before, LockAddsDone)

\* a team of two has completed three adds that all write cell lock_size
C19_Witness ==
    /\ lk_pc = "batch"
    /\ lk_threads = 2
    /\ Cardinality(LockAddsDone) = 3
    /\ \A i \in LockAddsDone :
         lock_size \in AddCells(lk_batch[i + 1].index + 1, lk_n + 1)
    /\ lk_bits[lock_size] = 7

RECURSIVE LockValueSum(_)
\* the sum of the values of the operations at the iterations of set todo
LockValueSum(todo) ==
    IF todo = {} THEN 0
    ELSE LET i == CHOOSE j \in todo : TRUE
         IN lk_batch[i + 1].value + LockValueSum(todo \ {i})

\* of the iterations of set todo, the adds with index <= index
LockAddsUpTo(todo, index) ==
    {j \in todo : lk_batch[j + 1].command = "a" /\ lk_batch[j + 1].index <= index}

RECURSIVE LockWalkSum(_, _)
\* total += bits[x] down the walk of sum from x, on cells b
LockWalkSum(b, x) ==
    IF x > 0 THEN LockCell(b, x) + LockWalkSum(b, x - lowbit(x)) ELSE 0

\* what sum(index) returns on the cells the batch started with
LockBefore(index) == LockWalkSum(lk_before, index + 1)

\* C20: a FenwickTreeLocked::sum(i) that runs among concurrent adds returns
\* the sum of the updates with index <= i that had completed when it
\* started, plus the values of some subset of the updates with index <= i
\* in flight while it ran: each update whole, and at most once.
C20_SumCountsWholeUpdatesOnce ==
    \A r \in lk_sums :
        LET index == lk_batch[r.op + 1].index
        IN \E counted \in SUBSET LockAddsUpTo(r.called, index) :
             r.result = LockBefore(index)
                          + LockValueSum(LockAddsUpTo(r.before, index))
                          + LockValueSum(counted)

\* a sum ran while two updates at or below its index were in flight, and
\* returned one of them without the other
C20_Witness ==
    \E r \in lk_sums :
        LET index == lk_batch[r.op + 1].index
            flying == LockAddsUpTo(r.called, index)
        IN /\ Cardinality(flying) = 2
           /\ \E j \in flying :
                r.result = LockBefore(index)
                             + LockValueSum(LockAddsUpTo(r.before, index))
                             + lk_batch[j + 1].value

\* sync() has returned and the driver has not called init() again
SyncReturned ==
    /\ s_class \in {"Scheduler", "LockFreeScheduler"}
    /\ d_pc = "validate" \/ (d_pc \in {"batch", "diff"} /\ s_batches > 0)

\* C21: in the protocol init(); submits; sync(), when sync() of Scheduler or
\* LockFreeScheduler has returned every worker has processed every task that
\* was submitted before it (its queue is empty and it handles no task), every
\* position holds the contributions of all workers, and no worker writes
\* results_ until the next init().
C21_SyncIsBatchBarrier ==
    /\ [](SyncReturned =>
            /\ \A w \in Workers :
                  /\ task_queues_[w] = <<>>
                  /\ w_pc[w] = "wait"
                  /\ w_task[w] = NoTask
            /\ \A pos \in Positions : results_[pos] = seq_res[pos])
    /\ [][SyncReturned => results_' = results_]_vars

\* sync() has returned in the second batch of two workers, whose batch held a
\* query that both workers answered with a sum that is not 0
C21_Witness ==
    /\ SyncReturned /\ d_pc = "validate" /\ s_batches = 1
    /\ num_workers_ = 2 /\ sync_ = 2
    /\ \E pos \in Positions :
         /\ s_operations[pos].command = "q"
         /\ \A w \in Workers : TreeSum(local_trees_[w], s_operations[pos].index) > 0
         /\ results_[pos] > 0

\* C22: when sync() of Scheduler or LockFreeScheduler returns the sync counter
\* has been reset, sync_ is 0, so that a later sync() waits for all workers
\* again without an init() in between.
C22_SyncResetsCounter ==
    (s_class \in {"Scheduler", "LockFreeScheduler"} /\ d_pc = "validate")
        => sync_ = 0

\* C23: shutdown() after a final sync() terminates Scheduler and
\* LockFreeScheduler: a worker that has exited leaves no task in its queue,
\* shutdown() has returned only when every worker has exited, and under fair
\* scheduling a shutdown() called after a sync() does return.
C23_ShutdownTerminates ==
    /\ [](s_class \in {"Scheduler", "LockFreeScheduler"} =>
            /\ \A w \in Workers : w_pc[w] = "done" => task_queues_[w] = <<>>
            /\ d_pc = "done" => \A w \in Workers : w_pc[w] = "done")
    /\ (d_pc = "bcast_finish" /\ s_batches > 0) ~> (d_pc = "done")

\* shutdown() has returned after two batches on two workers that both hold
\* updates
C23_Witness ==
    /\ s_class \in {"Scheduler", "LockFreeScheduler"}
    /\ d_pc = "done" /\ s_batches = 2 /\ num_workers_ = 2
    /\ \A w \in Workers :
         w_pc[w] = "done" /\ TreeSum(local_trees_[w], tree_size_ - 1) > 0

\* C24: each queue of the workers of Scheduler is bounded: it never holds
\* more tasks than its capacity, because a push on a full queue waits until
\* the worker has dequeued a task.
C24_QueueBounded ==
    s_class = "Scheduler" =>
        \A w \in Workers : Len(task_queues_[w]) <= MaxQueued

\* C25: an executor constructed with W <= 0 is refused by its constructor:
\* a scheduler with num_workers <= 0 never gets past its constructor, so it
\* starts no worker and accepts no operation.
C25_BadConfigRejected ==
    (s_class \in {"Scheduler", "LockFreeScheduler"} /\ num_workers_ <= 0)
        => d_pc = "ctor"

RECURSIVE FirstOnWalk(_, _)
\* the smallest index >= lower on the update walk x, x + (x & -x), ...
FirstOnWalk(x, lower) ==
    IF x >= lower THEN x ELSE FirstOnWalk(x + lowbit(x), lower)

\* C26: for every operation of the batch with k0 = index + 1 below the lower
\* bound of a thread that runs batchAdd, the index the thread's jump computes
\* is the smallest index >= lower on the update walk of k0.
C26_JumpIsFirstOnWalk ==
    p_pc = "parallel" =>
        \A t \in Threads :
            t_pc[t] # "fork" =>
                \A op \in 1..Len(operations) :
                    operations[op].index + 1 < t_lower[t] =>
                        Jump(operations[op].index + 1, t_lower[t])
                            = FirstOnWalk(operations[op].index + 1, t_lower[t])

RECURSIVE StripeWalk(_, _, _, _)
\* FenwickTreePipeline::batchAdd, for (; x < upper; x += x & -x) bits[x] += val
StripeWalk(b, x, upper, val) ==
    IF x < upper
    THEN StripeWalk([b EXCEPT ![x] = @ + val], x + lowbit(x), upper, val)
    ELSE b

RECURSIVE StripeOps(_, _, _, _, _)
\* FenwickTreePipeline::batchAdd, the loop of one thread over ops[op..]
StripeOps(b, ops, op, lower, upper) ==
    IF op > Len(ops) THEN b
    ELSE StripeOps(StripeWalk(b, Jump(ops[op].index + 1, lower), upper,
                              ops[op].value),
                   ops, op + 1, lower, upper)

RECURSIVE PipelineBatchAdd(_, _, _, _, _)
\* FenwickTreePipeline::batchAdd on cells b with the threads 0..t holding the
\* ranges [lowers[u], uppers[u]): the threads write disjoint cells, so their
\* loops are taken one after another
PipelineBatchAdd(b, ops, lowers, uppers, t) ==
    IF t < 0 THEN b
    ELSE PipelineBatchAdd(StripeOps(b, ops, 1, lowers[t], uppers[t]),
                          ops, lowers, uppers, t - 1)

\* C27: with the same ranges and the same batch, bits after
\* FenwickTreePipelineAggregate::batchAdd (deposit at the jump target, then
\* the pass over the range) equals cell for cell bits after
\* FenwickTreePipeline::batchAdd (the walk inside the range).
C27_DepositPropagateEqualsWalk ==
    (BatchReturned /\ p_class \in {"Pipeline", "Aggregate"})
        => bits = PipelineBatchAdd(p_before, operations, t_lower, t_upper,
                                   num_threads - 1)

\* an Aggregate batch of two updates has returned in which one thread has
\* carried a deposit from its cell to a later cell of its range, and another
\* thread has written as well
C27_Witness ==
    /\ BatchReturned /\ p_class = "Aggregate" /\ Len(operations) = 2
    /\ \E t, u \in Threads :
         /\ t # u
         /\ \E x \in t_lower[t]..(t_upper[t] - 1) :
              /\ x + lowbit(x) < t_upper[t]
              /\ bits[x] # p_before[x]
              /\ bits[x + lowbit(x)] # p_before[x + lowbit(x)]
         /\ \E y \in t_lower[u]..(t_upper[u] - 1) : bits[y] # p_before[y]

\* the workers whose queue has an Update task more after the step
UpdateReceivers ==
    {w \in Workers :
        /\ Len(task_queues_'[w]) = Len(task_queues_[w]) + 1
        /\ task_queues_'[w][Len(task_queues_'[w])].type = "Update"}

\* the step is the driver submitting the update at position d_i
UpdateSubmitted ==
    /\ d_pc = "submit" /\ d_i < batch_size_
    /\ s_operations[d_i].command = "a"
    /\ d_i' = d_i + 1

\* C28: in Scheduler and LockFreeScheduler counter_ is 0 after construction,
\* the submission of an update enqueues it to worker counter_ mod W and to no
\* other and advances counter_ by one, and no other step (query, Sync,
\* init(), the workers) enqueues an update or changes counter_: the j-th
\* update of the scheduler's lifetime goes to worker j mod W.
C28_RoundRobinRouting ==
    /\ []((s_class \in {"Scheduler", "LockFreeScheduler"} /\ d_pc = "ctor")
            => counter_ = 0)
    /\ [][(s_class \in {"Scheduler", "LockFreeScheduler"}) =>
            IF UpdateSubmitted
            THEN (UpdateReceivers = {counter_ % num_workers_}
                    /\ counter_' = counter_ + 1)
            ELSE (UpdateReceivers = {} /\ counter_' = counter_)]_vars

\* the third update of the lifetime of a scheduler of two workers, submitted
\* in its second batch, waits in the queue of worker 0
C28_Witness ==
    /\ s_class \in {"Scheduler", "LockFreeScheduler"}
    /\ num_workers_ = 2 /\ counter_ = 3 /\ s_batches = 1 /\ d_pc = "submit"
    /\ task_queues_[0] # <<>>
    /\ task_queues_[0][Len(task_queues_[0])].type = "Update"
    /\ task_queues_[1] = <<>>

\* the bounds <<thread, 1 (first) or 2 (second)>> that the last batchAdd
\* call has changed: each thread read its range when the call started
BoundsChanged ==
    {c \in Threads \X {1, 2} :
        ranges[c[1]][c[2]] # (IF c[2] = 1 THEN t_lower[c[1]] ELSE t_upper[c[1]])}

\* thread t has moved its upper bound and the lower bound of thread t + 1 to
\* the right by step, and nothing else
MovedRight(t) ==
    /\ t + 1 \in Threads
    /\ BoundsChanged = {<<t, 2>>, <<t + 1, 1>>}
    /\ ranges[t][2] = t_upper[t] + step
    /\ ranges[t + 1][1] = t_lower[t + 1] + step

\* thread t has moved its lower bound and the upper bound of thread t - 1 to
\* the left by step, and nothing else
MovedLeft(t) ==
    /\ t - 1 \in Threads
    /\ BoundsChanged = {<<t, 1>>, <<t - 1, 2>>}
    /\ ranges[t][1] = t_lower[t] - step
    /\ ranges[t - 1][2] = t_upper[t - 1] - step

\* C29 as stated: each batchAdd call on FenwickTreePipelineSemiStatic shifts
\* exactly one pair (hi_t, lo_t+1) or (lo_t, hi_t-1) by exactly step and
\* leaves every other bound unchanged.
C29_ExactlyOneBoundary ==
    (BatchReturned /\ p_class = "SemiStatic")
        => \E t \in Threads : MovedRight(t) \/ MovedLeft(t)

\* C29, amended: each batchAdd call on FenwickTreePipelineSemiStatic shifts
\* at most one pair: either no bound changes (the designated thread's shift
\* would leave [1, bits.size())) or exactly one pair (hi_t, lo_t+1) or
\* (lo_t, hi_t-1) is shifted by exactly step and every other bound is left
\* unchanged.
C29_AtMostOneBoundary ==
    (BatchReturned /\ p_class = "SemiStatic")
        => \/ BoundsChanged = {}
           \/ \E t \in Threads : MovedRight(t) \/ MovedLeft(t)

\* a batchAdd call has returned in which a thread that is not the first has
\* moved its lower bound to the left
C29_Witness ==
    /\ BatchReturned /\ p_class = "SemiStatic" /\ num_threads = 3
    /\ MovedLeft(1)

\* the step is thread t executing the block of the omp single
RunsBlock(t) ==
    /\ p_class = "SemiStatic" /\ p_pc = "parallel"
    /\ t_pc[t] = "single" /\ ~single_done /\ t_pc'[t] = "join"

\* ranges[t] has neither the first cell nor the end of the tree as a bound
Interior(rs, t) == rs[t][1] # 1 /\ rs[t][2] # p_n + 1

\* the step leaves ranges[t].first alone and moves ranges[t].second to the
\* right or not at all
OnlyUpperRight(t) == ranges'[t][1] = ranges[t][1] /\ ranges'[t][2] >= ranges[t][2]

\* the step leaves ranges[t].second alone and moves ranges[t].first to the
\* left or not at all
OnlyLowerLeft(t) == ranges'[t][2] = ranges[t][2] /\ ranges'[t][1] <= ranges[t][1]

\* the step moves ranges[t].first to the left by step and leaves
\* ranges[t].second alone
LowerLeftByStep(t) ==
    ranges'[t][1] = ranges[t][1] - step /\ ranges'[t][2] = ranges[t][2]

\* the ranges before the first batchAdd call, and the ranges that the threads
\* of the last call read when it started
RangesAtStart == InitializeRanges(p_n, num_threads, p_class)
RangesRead == [t \in Threads |-> <<t_lower[t], t_upper[t]>>]

\* the way thread t has moved its own bounds between ra and rb: a neighbour's
\* rebalance moves first to the right or second to the left, never so
Direction(ra, rb, t) ==
    IF rb[t][1] < ra[t][1] THEN "left"
    ELSE IF rb[t][2] > ra[t][2] THEN "right"
    ELSE "none"

\* thread t is interior and the move that the parity of first + second
\* selects stays inside [1, bits.size())
Unobstructed(rs, t) ==
    /\ Interior(rs, t)
    /\ IF (rs[t][1] + rs[t][2]) % 2 = 0
       THEN rs[t][1] - step >= 1
       ELSE rs[t][2] + step < p_n + 1

\* thread t has run the rebalance of the first and of the second batchAdd
\* call, interior and unobstructed both times
TwoRebalancesBy(t) ==
    /\ p_class = "SemiStatic" /\ p_pc = "idle" /\ batches = 2
    /\ Unobstructed(RangesAtStart, t) /\ Unobstructed(RangesRead, t)
    /\ Direction(RangesAtStart, RangesRead, t) # "none"
    /\ Direction(RangesRead, ranges, t) # "none"

\* two successive unobstructed rebalances by the same interior thread go in
\* opposite directions
Alternates ==
    \A t \in Threads :
        TwoRebalancesBy(t) =>
            Direction(RangesAtStart, RangesRead, t) # Direction(RangesRead, ranges, t)

\* C30 as stated: the thread that runs the rebalance moves only hi_t, to the
\* right, if lo_t = 1; only lo_t, to the left, if hi_t = N+1; and an interior
\* thread moves lo_t to the left when lo_t + hi_t is even and hi_t to the
\* right when it is odd; and two successive unobstructed rebalances by the
\* same interior thread go in opposite directions.
C30_DirectionByParity ==
    /\ [][\A t \in Threads : RunsBlock(t) =>
             ((ranges[t][1] = 1 => OnlyUpperRight(t))
              /\ (ranges[t][2] = p_n + 1 => OnlyLowerLeft(t))
              /\ (Interior(ranges, t) =>
                     IF (ranges[t][1] + ranges[t][2]) % 2 = 0
                     THEN OnlyLowerLeft(t) ELSE OnlyUpperRight(t)))]_vars
    /\ []Alternates

\* C30, amended: the thread that runs the rebalance moves only hi_t, to the
\* right, if lo_t = 1; only lo_t, to the left, if hi_t = N+1; an interior
\* thread moves lo_t to the left by step when lo_t + hi_t is even and
\* lo_t - step >= 1, and otherwise moves only hi_t, to the right; and two
\* successive unobstructed rebalances by the same interior thread go in
\* opposite directions.
C30_DirectionPolicy ==
    /\ [][\A t \in Threads : RunsBlock(t) =>
             ((ranges[t][1] = 1 => OnlyUpperRight(t))
              /\ (ranges[t][2] = p_n + 1 => OnlyLowerLeft(t))
              /\ (Interior(ranges, t) =>
                     IF (ranges[t][1] + ranges[t][2]) % 2 = 0
                           /\ ranges[t][1] - step >= 1
                     THEN LowerLeftByStep(t) ELSE OnlyUpperRight(t)))]_vars
    /\ []Alternates

\* the same interior thread has run two successive unobstructed rebalances,
\* the first to the right and the second to the left
C30_Witness ==
    \E t \in Threads :
        /\ TwoRebalancesBy(t)
        /\ Direction(RangesAtStart, RangesRead, t) = "right"
        /\ Direction(RangesRead, ranges, t) = "left"

\* the number of logical indices in [0, n) whose update walk visits cell k
VisitCount(k, n) == Cardinality({i \in 0..(n - 1) : k \in WalkSet(i + 1, n + 1)})

\* C31: the weight dp[k] that initialize_ranges gives to tree index k when it
\* cuts [1, n + 1) is the number of logical indices in [0, n) whose update
\* walk visits k, for each of the three pipeline classes.
C31_WeightIsTraffic ==
    \A k \in 1..p_n : Traffic(p_n, p_class).dp[k] = VisitCount(k, p_n)

\* the lazy driver has finished a batch and not yet started the next
LazyBatchEnded == lazy_batches >= 1 /\ lazy_pc \in {"batch", "diff"}

\* the values of the updates of the batch, added up (a query carries 0)
LazyUpdateSum == SumTo([i \in LazyPositions |-> lazy_ops[i].value], lazy_batch - 1)

\* C32: when a batch of the lazy driver ends every update of the batch has
\* been applied to test_tree exactly once, the updates after the last query
\* and those of a batch without a query included: test_tree holds in every
\* cell what base_tree holds, and after the first batch the full-range sum is
\* the sum of all update values.
C32_EveryUpdateAppliedOnce ==
    LazyBatchEnded =>
        /\ test_tree = lazy_base
        /\ lazy_batches = 1 => LSyncSum(test_tree, lazy_n - 1) = LazyUpdateSum

\* a batch has ended that held an update, a query and an update after the
\* last query, flushed by two threads
C32_Witness ==
    /\ LazyBatchEnded /\ lazy_batch = 3 /\ lazy_threads = 2
    /\ lazy_ops[0].command = "a" /\ lazy_ops[1].command = "q"
    /\ lazy_ops[2].command = "a"

\* C33: under fair scheduling of the workers, a sync() called after init()
\* and the submits of a batch eventually returns: every worker counts the
\* Sync task and sync_ reaches num_workers_.
C33_SyncReturns ==
    (s_class \in {"Scheduler", "LockFreeScheduler"} /\ d_pc = "bcast_sync")
        ~> (d_pc = "validate")

\* C35: while Scheduler and LockFreeScheduler are constructed no worker
\* accesses its slot of task_queues_ before the constructor has put the queue
\* there, in every interleaving of the constructor and the started workers.
C35_QueueMadeBeforeAccess ==
    s_class \in {"Scheduler", "LockFreeScheduler"}
        => \A w \in Workers : w_pc[w] # "fault"

\* the bounds thread t works with in the running batchAdd call
BoundsOf(t) == <<t_lower[t], t_upper[t]>>

\* C34: in FenwickTreePipelineSemiStatic::batchAdd every thread works through
\* the whole batch with the bounds ranges held when batchAdd was called: a
\* thread that has read its bounds holds ranges[t] as long as the rebalance of
\* the call has not run, ranges is written only when every thread has read
\* its bounds and passed the barrier, and no thread reads bounds after the
\* rebalance of the call, so the shift is seen from the next call on.
C34_BoundsFixedForBatch ==
    /\ []((p_class = "SemiStatic" /\ p_pc = "parallel" /\ ~single_done)
            => \A t \in Threads : t_pc[t] # "fork" => BoundsOf(t) = ranges[t])
    /\ [][(p_class = "SemiStatic" /\ p_pc = "parallel" /\ ranges' # ranges)
            => \A t \in Threads : t_pc[t] \notin {"fork", "barrier"}]_vars
    /\ [][(p_class = "SemiStatic" /\ p_pc = "parallel"
             /\ (t_lower' # t_lower \/ t_upper' # t_upper))
            => (~single_done /\ ranges' = ranges)]_vars

\* the rebalance of the call has moved the bounds of a thread that is still
\* adding to cells with the bounds it read
C34_Witness ==
    /\ p_class = "SemiStatic" /\ p_pc = "parallel" /\ single_done
    /\ \E t \in Threads :
         /\ t_pc[t] \in {"load", "store"}
         /\ BoundsOf(t) # ranges[t]

\* C36: LockingQueue is bounded: in every interleaving of push, pop and
\* close calls the queue never holds more than max_length_ elements, and a
\* push adds its element only in a step that finds fewer than max_length_ in
\* the queue, so a push on a full queue adds nothing until a pop has taken one.
C36_LockingQueueBounded ==
    /\ [](lq_pc = "on" => Len(queue_) <= max_length_)
    /\ [][Len(queue_') > Len(queue_) => Len(queue_) < max_length_]_vars

\* a push waits on a queue that holds max_length_ = 2 elements, after a pop
\* has already taken one
C36_Witness ==
    /\ lq_pc = "on" /\ max_length_ = 2 /\ Len(queue_) = 2 /\ lq_popped # <<>>
    /\ \E t \in QueueThreads : lq_t[t].pc = "push_wait"

\* every element pushed so far: the ones pop has taken, then the ones queued
QueueAll == lq_popped \o queue_

\* C37: LockingQueue is a blocking FIFO: pop takes an element only from a
\* queue that holds one, and takes the front; every pushed value is in the
\* queue or has been taken by exactly one pop; and the values of one producer
\* are taken in the order it pushed them.
C37_BlockingFifo ==
    /\ [][lq_popped' # lq_popped =>
            (queue_ # <<>> /\ lq_popped' = Append(lq_popped, Head(queue_))
             /\ queue_' = Tail(queue_))]_vars
    /\ [](lq_pc = "on" =>
            /\ \A i, j \in 1..Len(QueueAll) : i # j => QueueAll[i] # QueueAll[j]
            /\ {QueueAll[i] : i \in 1..Len(QueueAll)}
                 = {v \in QueueThreads \X (1..MaxQueueCalls) : v[2] <= lq_t[v[1]].pushed}
            /\ \A i, j \in 1..Len(lq_popped) :
                  (i < j /\ lq_popped[i][1] = lq_popped[j][1])
                      => lq_popped[i][2] < lq_popped[j][2])

\* three pops have returned: the two values of one producer, in order, with
\* the value of another producer between them
C37_Witness ==
    /\ lq_pc = "on" /\ Len(lq_popped) = 3
    /\ lq_popped[1][1] = lq_popped[3][1]
    /\ lq_popped[1][1] # lq_popped[2][1]
    /\ \A t \in QueueThreads : lq_t[t].pc = "idle"

\* C38: after close() a pop() that finds the queue closed and empty
\* terminates, without keeping the mutex, so that no thread that calls push
\* or close is blocked forever behind it.
C38_ClosedPopReturns ==
    \A t \in QueueThreads :
        (closed /\ queue_ = <<>>
           /\ lq_t[t].pc \in {"pop_lock", "pop_relock", "pop_block", "pop_wait", "pop_spin"})
            ~> (lq_t[t].pc = "idle")

====
